---- MODULE Spec2Model ----
(***************************************************************************)
(* A model of the wasm-hosted policy evaluator of opa-rs (crate opa-wasm): *)
(* the guest heap as a byte-addressed linear memory, the serde codec that  *)
(* encodes host values into heap nodes and decodes them back, the built-in *)
(* dispatcher, and the Policy facade (from_wasm, set_data, evaluate).      *)
(*                                                                         *)
(* Integers of the program are 64 bit wide; the model keeps every integer  *)
(* it handles inside the 32 bit range of TLC, writes it to memory          *)
(* as its 8 byte little-endian two's complement form and reads it back     *)
(* from those bytes.  Strings are sequences of bytes (ASCII).              *)
(***************************************************************************)
EXTENDS Integers, Sequences, FiniteSets, TLC

(***************************************************************************)
(* Bounds of the model.                                                    *)
(***************************************************************************)
\* bytes per page of linear memory (65536 in wasm, scaled down)
PageSize == 64
\* number of pages linear memory may grow to
MaxPages == 10
\* number of bytes of linear memory the guest may grow to
MemSize == MaxPages * PageSize
\* nesting depth up to which a heap graph is followed when decoding
MaxDepth == 6
\* nesting depth of the values the codec is exercised on
MaxNest == 2
\* largest reading of the wall clock
MaxClock == 1
\* pages of the memory the host allocates for an instance
InitialPages == 5

(***************************************************************************)
(* Heap layout: tags, number representations and the repr(C) sizes and     *)
(* field offsets of the node structs.                                      *)
(***************************************************************************)
OPA_NULL == 1
OPA_BOOLEAN == 2
OPA_NUMBER == 3
OPA_STRING == 4
OPA_ARRAY == 5
OPA_OBJECT == 6
OPA_SET == 7

OPA_NUMBER_REPR_INT == 1
OPA_NUMBER_REPR_FLOAT == 2
OPA_NUMBER_REPR_REF == 3

SizeofValue == 1
SizeofBoolean == 8
SizeofNumber == 16
SizeofString == 12
SizeofArray == 16
SizeofArrayElem == 8
SizeofObject == 8
SizeofObjectElem == 12
SizeofSet == 8
SizeofSetElem == 8

(***************************************************************************)
(* Little-endian byte forms.  x ranges over the integers of TLC;           *)
(* the upper four bytes of an 8 byte integer are its sign extension.       *)
(***************************************************************************)
LE32(x) ==
  << x % 256, (x \div 256) % 256, (x \div 65536) % 256, (x \div 16777216) % 256 >>

SignByte(x) == IF x < 0 THEN 255 ELSE 0

LE64(x) == LE32(x) \o << SignByte(x), SignByte(x), SignByte(x), SignByte(x) >>

FromLE32(b) ==
  b[1] + 256 * b[2] + 65536 * b[3] + 16777216 * (IF b[4] >= 128 THEN b[4] - 256 ELSE b[4])

\* TRUE iff the 8 bytes hold an integer the model can represent
FitsLE64(b) ==
  LET s == IF b[4] >= 128 THEN 255 ELSE 0
  IN  b[5] = s /\ b[6] = s /\ b[7] = s /\ b[8] = s

Pad(n) == [j \in 1..n |-> 0]

(***************************************************************************)
(* Host values.  Every value is a record of one shape:                     *)
(*   k  the kind, b a boolean, i an integer, s a byte string,              *)
(*   xs the children, e an error name (values carry "").                   *)
(* Kinds of the serde data model that the encoder is driven with:          *)
(*   null, bool, i64, ref (lexical number through the number marker),      *)
(*   str, seq (declared length i, emitted elements xs), map (entries xs),  *)
(*   set (elements xs, through the set marker); an entry has xs = <<k,v>>. *)
(***************************************************************************)
Mk(k, b, i, s, xs, e) == [k |-> k, b |-> b, i |-> i, s |-> s, xs |-> xs, e |-> e]

VNull == Mk("null", FALSE, 0, <<>>, <<>>, "")
VBool(b) == Mk("bool", b, 0, <<>>, <<>>, "")
VInt(i) == Mk("i64", FALSE, i, <<>>, <<>>, "")
VRef(s) == Mk("ref", FALSE, 0, s, <<>>, "")
VStr(s) == Mk("str", FALSE, 0, s, <<>>, "")
VSeq(len, xs) == Mk("seq", FALSE, len, <<>>, xs, "")
VArray(xs) == VSeq(Len(xs), xs)
VEntry(key, val) == Mk("entry", FALSE, 0, <<>>, <<key, val>>, "")
VMap(entries) == Mk("map", FALSE, 0, <<>>, entries, "")
VSet(xs) == Mk("set", FALSE, 0, <<>>, xs, "")
\* the unit value (), Option::None, Option::Some(x) and a unit variant of
\* an enum, named by the bytes of its name
VUnit == Mk("unit", FALSE, 0, <<>>, <<>>, "")
VNone == Mk("none", FALSE, 0, <<>>, <<>>, "")
VSome(x) == Mk("some", FALSE, 0, <<>>, << x >>, "")
VVariant(s) == Mk("variant", FALSE, 0, s, <<>>, "")
\* an i64 given by its 8 bytes, least significant first, and an integer of
\* a narrower type given by the bytes of that type
VLong(s) == Mk("long", FALSE, 0, s, <<>>, "")
VNarrow(s) == Mk("narrow", FALSE, 0, s, <<>>, "")
\* a failed operation: error name e with payload i
VErr(e, i) == Mk("err", FALSE, i, <<>>, <<>>, e)
\* a Rust panic (slice index out of range, division by zero, ...)
VPanic(e) == Mk("panic", FALSE, 0, <<>>, <<>>, e)

IsErr(v) == v.k = "err"
IsPanic(v) == v.k = "panic"
IsOk(v) == v.k \notin {"err", "panic"}

(***************************************************************************)
(* The guest heap.  A heap h is a record                                   *)
(*   mem       the linear memory, a byte per address,                      *)
(*   heap_ptr  the top of the bump allocator,                              *)
(*   heap_top  the high-water mark of the region,                          *)
(*   wlo       the lowest address the host has written (MemSize if none),  *)
(*   err       "none", or the name of the error that stopped the codec.    *)
(***************************************************************************)
NoErr == "none"

Ret(h, a) == [h |-> h, a |-> a]

Fail(h, e) == [h EXCEPT !.err = e]
\* the heap after a step failed with the error e(len, count)
FailLen(h, e, len, count) == [h EXCEPT !.err = e, !.arg = << len, count >>]

Min(a, b) == IF a < b THEN a ELSE b

\* the top of the region once the block that ends at new is allocated
GrownTop(h, len, new) ==
  IF new >= h.heap_top THEN h.heap_top + ((len \div PageSize) + 1) * PageSize
  ELSE h.heap_top

\* opa_malloc from the new heap pointer and the new top on
Bump(h, new, top) ==
  IF top > MemSize THEN Ret(Fail(h, "Trap"), 0)
  ELSE Ret([h EXCEPT !.heap_ptr = new, !.heap_top = top], h.heap_ptr)

\* export opa_malloc of the guest: a bump allocator that grows the region
\* page-wise and traps once linear memory cannot grow any further
opa_malloc(h, len) == Bump(h, h.heap_ptr + len, GrownTop(h, len, h.heap_ptr + len))

\* Serializer::alloc from the return of opa_malloc on
AllocResult(h, r) == IF r.h.err # NoErr THEN Ret(Fail(h, "Alloc"), 0) ELSE r

\* Serializer::alloc
Alloc(h, size) ==
  IF h.err # NoErr THEN Ret(h, 0) ELSE AllocResult(h, opa_malloc(h, size))

\* the memory m with the bytes j.. of bytes copied to addr + j - 1 ..
Copy(m, addr, bytes, j) ==
  [a \in DOMAIN m |->
     IF a >= addr + j - 1 /\ a < addr + Len(bytes) THEN bytes[a - addr + 1] ELSE m[a]]

\* Memory::set: copy bytes to addr, an error when out of the memory
MemorySet(h, addr, bytes, e) ==
  IF h.err # NoErr THEN h
  ELSE IF addr < 0 \/ addr + Len(bytes) > MemSize THEN Fail(h, e)
  ELSE [h EXCEPT !.mem = Copy(@, addr, bytes, 1),
                 !.wlo = IF Len(bytes) > 0 THEN Min(@, addr) ELSE @]

\* Serializer::memset
MemSet(h, addr, bytes) == MemorySet(h, addr, bytes, "MemSet")

\* Serializer::store from the allocated block r on
StoreAt(r, bytes) == Ret(MemSet(r.h, r.a, bytes), r.a)

\* Serializer::store
Store(h, bytes) == StoreAt(Alloc(h, Len(bytes)), bytes)

\* the bytes of a struct of the given size at addr (they exist: see InMem)
Bytes(mem, addr, n) == [j \in 1..n |-> mem[addr + j - 1]]

InMem(addr, n) == addr >= 0 /\ addr + n <= MemSize

\* as_bytes of the node structs (padding bytes are written as 0)
ValueBytes(ty) == << ty >>
BooleanBytes(b) == << OPA_BOOLEAN >> \o Pad(3) \o LE32(IF b THEN 1 ELSE 0)
NumberIntBytes(i) == << OPA_NUMBER, OPA_NUMBER_REPR_INT >> \o Pad(6) \o LE64(i)
NumberLongBytes(s) == << OPA_NUMBER, OPA_NUMBER_REPR_INT >> \o Pad(6) \o s
NumberFloatBytes(f) == << OPA_NUMBER, OPA_NUMBER_REPR_FLOAT >> \o Pad(6) \o f
NumberRefBytes(data, len) ==
  << OPA_NUMBER, OPA_NUMBER_REPR_REF >> \o Pad(6) \o LE32(data) \o LE32(len)
StringBytes(len, data) == << OPA_STRING, 0 >> \o Pad(2) \o LE32(len) \o LE32(data)
ArrayBytes(elems, len) == << OPA_ARRAY >> \o Pad(3) \o LE32(elems) \o LE32(len) \o LE32(0)
\* the element with its two fields in the other order
ArrayElemBytesSwapped(i, v) == LE32(v) \o LE32(i)
ArrayElemBytes(i, v) == LE32(i) \o LE32(v)
ObjectBytes(head) == << OPA_OBJECT >> \o Pad(3) \o LE32(head)
ObjectElemBytes(k, v, next) == LE32(k) \o LE32(v) \o LE32(next)
SetBytes(head) == << OPA_SET >> \o Pad(3) \o LE32(head)
SetElemBytes(v, next) == LE32(v) \o LE32(next)

\* a struct read from memory with the 4 byte field at offset off replaced
WithField(bytes, off, x) ==
  [j \in 1..Len(bytes) |-> IF j > off /\ j <= off + 4 THEN LE32(x)[j - off] ELSE bytes[j]]

\* an element that is stored and never linked behind its predecessor
PatchNothing(h, prev, size, off, x) == h

\* the read-modify-write by which an element is linked behind its
\* predecessor: get::<T>(prev), assign the pointer field, set(prev)
Patch(h, prev, size, off, x) ==
  IF h.err # NoErr THEN h
  ELSE IF ~InMem(prev, size) THEN Fail(h, "General")
  ELSE MemorySet(h, prev, WithField(Bytes(h.mem, prev, size), off, x), "General")

(***************************************************************************)
(* The encoder: Serialize of Value driving the Serializer.  Encode(h, v)   *)
(* is the heap after the nodes of v were written and the address of the    *)
(* root node; once h.err is set every later step leaves the heap alone, as *)
(* the ? operator returns from the serializer.                             *)
(***************************************************************************)
RECURSIVE Encode(_, _)
RECURSIVE ArraySerializer(_, _, _, _)
RECURSIVE SetSerializer(_, _, _, _)
RECURSIVE ObjectSerializer(_, _, _, _)

\* ArraySerializer::serialize_element for the elements count+1.. of xs;
\* count is the number of elements already stored
ArraySerializer(h, xs, count, elems_addr) ==
  IF h.err # NoErr \/ count >= Len(xs) THEN h
  ELSE LET i == Encode(h, VInt(count))
           v == Encode(i.h, xs[count + 1])
           w == MemSet(v.h, elems_addr + count * SizeofArrayElem, ArrayElemBytes(i.a, v.a))
       IN  ArraySerializer(w, xs, count + 1, elems_addr)

\* SetSerializer::serialize_element for the elements n.. of xs; prev is the
\* set node (n = 1) or the element stored last
SetSerializer(h, xs, n, prev) ==
  IF h.err # NoErr \/ n > Len(xs) THEN h
  ELSE LET v == Encode(h, xs[n])
           el == Store(v.h, SetElemBytes(v.a, 0))
           w == IF n = 1 THEN Patch(el.h, prev, SizeofSet, 4, el.a)
                         ELSE Patch(el.h, prev, SizeofSetElem, 4, el.a)
       IN  SetSerializer(w, xs, n + 1, el.a)

\* ObjectSerializer::serialize_key and serialize_value for the entries n..
ObjectSerializer(h, es, n, prev) ==
  IF h.err # NoErr \/ n > Len(es) THEN h
  ELSE LET k == Encode(h, es[n].xs[1])
           v == Encode(k.h, es[n].xs[2])
           el == Store(v.h, ObjectElemBytes(k.a, v.a, 0))
           w == IF n = 1 THEN Patch(el.h, prev, SizeofObject, 4, el.a)
                         ELSE Patch(el.h, prev, SizeofObjectElem, 8, el.a)
       IN  ObjectSerializer(w, es, n + 1, el.a)

\* ArraySerializer::end that does not compare count and len
SerializeSeqUnchecked(h, v) ==
  IF v.i < 0 THEN Ret(Fail(h, "ExpectedSeqLen"), 0)
  ELSE LET t == Alloc(h, v.i * SizeofArrayElem)
           hd == Store(t.h, ArrayBytes(t.a, v.i))
           w == ArraySerializer(hd.h, v.xs, 0, t.a)
       IN  IF w.err # NoErr THEN Ret(w, 0) ELSE Ret(w, hd.a)

\* serialize_seq(Some(len)) .. end; serialize_seq(None) is v.i < 0
SerializeSeq(h, v) ==
  IF v.i < 0 THEN Ret(Fail(h, "ExpectedSeqLen"), 0)
  ELSE LET t == Alloc(h, v.i * SizeofArrayElem)
           hd == Store(t.h, ArrayBytes(t.a, v.i))
           w == ArraySerializer(hd.h, v.xs, 0, t.a)
       IN  IF w.err # NoErr THEN Ret(w, 0)
           ELSE IF Len(v.xs) # v.i
             THEN Ret(FailLen(w, "InvalidSeqLen", v.i, Len(v.xs)), 0)
           ELSE Ret(w, hd.a)

\* serialize_str
SerializeStr(h, s) ==
  LET d == Store(h, s) IN Store(d.h, StringBytes(Len(s), d.a))

\* NumberRefEmitter::serialize_str
SerializeNumberRef(h, s) ==
  LET d == Store(h, s) IN Store(d.h, NumberRefBytes(d.a, Len(s)))

\* SetEmitter::serialize_seq .. end
SerializeSet(h, xs) ==
  LET hd == Store(h, SetBytes(0))
      w == SetSerializer(hd.h, xs, 1, hd.a)
  IN  Ret(w, hd.a)

\* serialize_map .. end
SerializeMap(h, es) ==
  LET hd == Store(h, ObjectBytes(0))
      w == ObjectSerializer(hd.h, es, 1, hd.a)
  IN  Ret(w, hd.a)

Encode(h, v) ==
  LET r == CASE v.k = "null" -> Store(h, ValueBytes(OPA_NULL))
             [] v.k = "bool" -> Store(h, BooleanBytes(v.b))
             [] v.k = "i64" -> Store(h, NumberIntBytes(v.i))
             [] v.k = "long" -> Store(h, NumberLongBytes(v.s))
             [] v.k = "f64" -> Store(h, NumberFloatBytes(v.s))
             [] v.k = "ref" -> SerializeNumberRef(h, v.s)
             [] v.k = "str" -> SerializeStr(h, v.s)
             [] v.k = "seq" -> SerializeSeq(h, v)
             [] v.k = "map" -> SerializeMap(h, v.xs)
             [] v.k = "set" -> SerializeSet(h, v.xs)
             [] v.k = "unit" -> Store(h, ValueBytes(OPA_NULL))
             [] v.k = "none" -> Store(h, ValueBytes(OPA_NULL))
             [] v.k = "some" -> Encode(h, v.xs[1])
             [] v.k = "variant" -> SerializeStr(h, v.s)
  IN  IF h.err # NoErr THEN Ret(h, 0)
      ELSE IF r.h.err # NoErr THEN Ret(r.h, 0) ELSE r

(***************************************************************************)
(* Ordering of values: the derived Ord of Value and Number, by which the   *)
(* BTreeSet behind a set and the BTreeMap behind an object keep order.     *)
(***************************************************************************)
\* position of the variant in enum Value (numbers: then in enum N)
Rank(v) ==
  CASE v.k = "null" -> 0
    [] v.k = "bool" -> 1
    [] v.k = "i64" -> 2
    [] v.k = "f64" -> 3
    [] v.k = "ref" -> 4
    [] v.k = "str" -> 5
    [] v.k = "seq" -> 6
    [] v.k = "map" -> 7
    [] v.k = "set" -> 8
    [] OTHER -> 9

CmpInt(a, b) == IF a < b THEN 0 - 1 ELSE IF a > b THEN 1 ELSE 0

RECURSIVE CmpBytes(_, _, _)
\* Ord of str: bytewise lexicographic, from position n
CmpBytes(s, t, n) ==
  IF n > Len(s) /\ n > Len(t) THEN 0
  ELSE IF n > Len(s) THEN 0 - 1
  ELSE IF n > Len(t) THEN 1
  ELSE IF s[n] # t[n] THEN CmpInt(s[n], t[n])
  ELSE CmpBytes(s, t, n + 1)

\* magnitude of the double held in the 8 bytes f, most significant byte first
F64Magnitude(f) == << f[8] % 128, f[7], f[6], f[5], f[4], f[3], f[2], f[1] >>

\* Ord of OrderedFloat on finite doubles, given as their 8 bytes
CmpF64(f, g) ==
  LET m == F64Magnitude(f)
      n == F64Magnitude(g)
      zero == << 0, 0, 0, 0, 0, 0, 0, 0 >>
  IN  IF m = zero /\ n = zero THEN 0
      ELSE IF f[8] >= 128 /\ g[8] < 128 THEN 0 - 1
      ELSE IF f[8] < 128 /\ g[8] >= 128 THEN 1
      ELSE IF f[8] < 128 THEN CmpBytes(m, n, 1)
      ELSE CmpBytes(n, m, 1)

RECURSIVE Cmp(_, _)
RECURSIVE CmpSeq(_, _, _)
\* Ord of Vec, of the entries of a BTreeMap and of the elements of a BTreeSet
CmpSeq(xs, ys, n) ==
  IF n > Len(xs) /\ n > Len(ys) THEN 0
  ELSE IF n > Len(xs) THEN 0 - 1
  ELSE IF n > Len(ys) THEN 1
  ELSE LET c == Cmp(xs[n], ys[n])
       IN  IF c # 0 THEN c ELSE CmpSeq(xs, ys, n + 1)

Cmp(a, b) ==
  IF Rank(a) # Rank(b) THEN CmpInt(Rank(a), Rank(b))
  ELSE CASE a.k = "null" -> 0
         [] a.k = "bool" -> CmpInt(IF a.b THEN 1 ELSE 0, IF b.b THEN 1 ELSE 0)
         [] a.k = "i64" -> CmpInt(a.i, b.i)
         [] a.k = "f64" -> CmpF64(a.s, b.s)
         [] a.k \in {"ref", "str"} -> CmpBytes(a.s, b.s, 1)
         [] OTHER -> CmpSeq(a.xs, b.xs, 1)

RECURSIVE SetInsert(_, _, _)
\* BTreeSet::insert into the ordered elements xs, searching from position n:
\* an element that is already present stays
SetInsert(xs, x, n) ==
  IF n > Len(xs) THEN Append(xs, x)
  ELSE LET c == Cmp(x, xs[n])
       IN  IF c = 0 THEN xs
           ELSE IF c < 0 THEN SubSeq(xs, 1, n - 1) \o << x >> \o SubSeq(xs, n, Len(xs))
           ELSE SetInsert(xs, x, n + 1)

RECURSIVE MapInsert(_, _, _)
\* BTreeMap::insert of the entry e: the value of a key already present is
\* replaced
MapInsert(es, e, n) ==
  IF n > Len(es) THEN Append(es, e)
  ELSE LET c == Cmp(e.xs[1], es[n].xs[1])
       IN  IF c = 0 THEN [es EXCEPT ![n] = e]
           ELSE IF c < 0 THEN SubSeq(es, 1, n - 1) \o << e >> \o SubSeq(es, n, Len(es))
           ELSE MapInsert(es, e, n + 1)

RECURSIVE CollectSet(_, _, _)
\* the BTreeSet collected from the elements xs as they are visited
CollectSet(xs, n, acc) ==
  IF n > Len(xs) THEN acc ELSE CollectSet(xs, n + 1, SetInsert(acc, xs[n], 1))

RECURSIVE CollectMap(_, _, _)
\* the BTreeMap collected from the entries es as they are visited
CollectMap(es, n, acc) ==
  IF n > Len(es) THEN acc ELSE CollectMap(es, n + 1, MapInsert(acc, es[n], 1))

\* Value::Set(s), Value::Object(m), Value::Array(v) of the host
Set(xs) == VSet(CollectSet(xs, 1, <<>>))
Object(es) == VMap(CollectMap(es, 1, <<>>))
Array(xs) == VArray(xs)

(***************************************************************************)
(* The decoder: Deserializer driving the visitor of Value.  Decode(mem, a, *)
(* fuel) is the value read from the node at a, an error (kind "err") or a  *)
(* panic (kind "panic"); fuel bounds the nesting that is followed.         *)
(***************************************************************************)
\* Memory::get::<T>(addr) for a struct of n bytes: the slice bytes[start..]
\* panics when start lies behind the memory, from_bytes wants n bytes
Get(mem, addr, n) ==
  IF addr < 0 \/ addr > MemSize THEN VPanic("slice index")
  ELSE IF addr + n > MemSize THEN VErr("NotEnoughData", n)
  ELSE VStr(Bytes(mem, addr, n))

\* Memory::get_bytes(ptr, len)
GetBytes(mem, ptr, len) ==
  IF ptr < 0 \/ len < 0 \/ ptr + len > MemSize THEN VErr("Wasmi", ptr)
  ELSE VStr(Bytes(mem, ptr, len))

\* TRUE iff the bytes s[n..] are UTF-8 made of sequences of one or two bytes
\* (longer sequences do not occur in the model): every byte is ASCII, a
\* leading byte in front of a continuation byte, or a continuation byte
\* behind a leading byte
Utf8Valid(s, n) ==
  \A j \in n..Len(s) :
    \/ s[j] < 128
    \/ s[j] >= 194 /\ s[j] <= 223 /\ j < Len(s) /\ s[j + 1] >= 128 /\ s[j + 1] <= 191
    \/ s[j] >= 128 /\ s[j] <= 191 /\ j > n /\ s[j - 1] >= 194 /\ s[j - 1] <= 223

\* String::from_utf8
FromUtf8(r) ==
  IF ~IsOk(r) THEN r
  ELSE IF ~Utf8Valid(r.s, 1) THEN VErr("InvalidUtf8", 0)
  ELSE r

Field(bytes, off) == FromLE32(SubSeq(bytes, off + 1, off + 4))

\* peek_type
PeekType(mem, addr) ==
  LET r == Get(mem, addr, SizeofValue) IN IF IsOk(r) THEN VInt(r.s[1]) ELSE r

\* parse_bool
ParseBool(mem, addr) ==
  LET ty == PeekType(mem, addr)
      b == Get(mem, addr, SizeofBoolean)
  IN  IF ~IsOk(ty) THEN ty
      ELSE IF ty.i # OPA_BOOLEAN THEN VErr("ExpectedBoolean", ty.i)
      ELSE IF ~IsOk(b) THEN b
      ELSE VBool(Field(b.s, 4) # 0)

\* parse_int::<i64>
ParseInt(mem, addr) ==
  LET ty == PeekType(mem, addr)
      n == Get(mem, addr, SizeofNumber)
  IN  IF ~IsOk(ty) THEN ty
      ELSE IF ty.i # OPA_NUMBER THEN VErr("ExpectedNumber", ty.i)
      ELSE IF ~IsOk(n) THEN n
      ELSE IF n.s[2] # OPA_NUMBER_REPR_INT THEN VErr("ExpectedInteger", n.s[2])
      ELSE IF ~FitsLE64(SubSeq(n.s, 9, 16)) THEN VErr("OutOfModelRange", 0)
      ELSE VInt(Field(n.s, 8))

\* parse_float
ParseFloat(mem, addr) ==
  LET ty == PeekType(mem, addr)
      n == Get(mem, addr, SizeofNumber)
  IN  IF ~IsOk(ty) THEN ty
      ELSE IF ty.i # OPA_NUMBER THEN VErr("ExpectedNumber", ty.i)
      ELSE IF ~IsOk(n) THEN n
      ELSE IF n.s[2] # OPA_NUMBER_REPR_FLOAT THEN VErr("ExpectedFloat", n.s[2])
      ELSE Mk("f64", FALSE, 0, SubSeq(n.s, 9, 16), <<>>, "")

\* parse_number_ref
ParseNumberRef(mem, addr) ==
  LET ty == PeekType(mem, addr)
      n == Get(mem, addr, SizeofNumber)
  IN  IF ~IsOk(ty) THEN ty
      ELSE IF ty.i # OPA_NUMBER THEN VErr("ExpectedNumber", ty.i)
      ELSE IF ~IsOk(n) THEN n
      ELSE IF n.s[2] # OPA_NUMBER_REPR_REF THEN VErr("ExpectedNumberRef", n.s[2])
      ELSE LET r == FromUtf8(GetBytes(mem, Field(n.s, 8), Field(n.s, 12)))
           IN  IF IsOk(r) THEN VRef(r.s) ELSE r

\* parse_string
ParseString(mem, addr) ==
  LET ty == PeekType(mem, addr)
      t == Get(mem, addr, SizeofString)
  IN  IF ~IsOk(ty) THEN ty
      ELSE IF ty.i # OPA_STRING THEN VErr("ExpectedString", ty.i)
      ELSE IF ~IsOk(t) THEN t
      ELSE FromUtf8(GetBytes(mem, Field(t.s, 8), Field(t.s, 4)))

RECURSIVE Decode(_, _, _)
RECURSIVE ArrayAccess(_, _, _, _, _, _)
RECURSIVE SetAccess(_, _, _, _)
RECURSIVE ObjectAccess(_, _, _, _)

\* ArrayAccess::next_element_seed until None: the elements n.. of the table
\* at elems, behind the elements acc already visited
ArrayAccess(mem, elems, n, len, fuel, acc) ==
  IF n = len THEN VArray(acc)
  ELSE LET elem == Get(mem, elems + n * SizeofArrayElem, SizeofArrayElem)
           v == Decode(mem, Field(elem.s, 4), fuel)
       IN  IF ~IsOk(elem) THEN elem
           ELSE IF ~IsOk(v) THEN v
           ELSE ArrayAccess(mem, elems, n + 1, len, fuel, Append(acc, v))

\* SetAccess::next_element_seed until None, next = 0 standing for None
SetAccess(mem, next, fuel, acc) ==
  IF next = 0 THEN VArray(acc)
  ELSE LET elem == Get(mem, next, SizeofSetElem)
           v == Decode(mem, Field(elem.s, 0), fuel)
       IN  IF ~IsOk(elem) THEN elem
           ELSE IF ~IsOk(v) THEN v
           ELSE SetAccess(mem, Field(elem.s, 4), fuel, Append(acc, v))

\* ObjectAccess::next_key_seed and next_value_seed until None; the keys are
\* read as strings, the values as values
ObjectAccess(mem, next, fuel, acc) ==
  IF next = 0 THEN VArray(acc)
  ELSE LET elem == Get(mem, next, SizeofObjectElem)
           k == ParseString(mem, Field(elem.s, 0))
           v == Decode(mem, Field(elem.s, 4), fuel)
       IN  IF ~IsOk(elem) THEN elem
           ELSE IF ~IsOk(k) THEN k
           ELSE IF ~IsOk(v) THEN v
           ELSE ObjectAccess(mem, Field(elem.s, 8), fuel, Append(acc, VEntry(k, v)))

\* deserialize_seq on an array node, visited by visit_seq of Value
DeserializeSeq(mem, addr, fuel) ==
  LET a == Get(mem, addr, SizeofArray)
      xs == ArrayAccess(mem, Field(a.s, 4), 0, Field(a.s, 8), fuel, <<>>)
  IN  IF ~IsOk(a) THEN a
      ELSE IF Field(a.s, 8) < 0 THEN VPanic("capacity overflow")
      ELSE IF ~IsOk(xs) THEN xs
      ELSE Array(xs.xs)

\* deserialize_struct(set::TOKEN): SetStructAccess, SetValueDeserializer
\* and SetAccess, visited by visit_map of Value
DeserializeSet(mem, addr, fuel) ==
  LET t == Get(mem, addr, SizeofSet)
      xs == SetAccess(mem, Field(t.s, 4), fuel, <<>>)
  IN  IF ~IsOk(t) THEN t
      ELSE IF ~IsOk(xs) THEN xs
      ELSE Set(xs.xs)

\* deserialize_map, visited by visit_map of Value
DeserializeMap(mem, addr, fuel) ==
  LET o == Get(mem, addr, SizeofObject)
      es == ObjectAccess(mem, Field(o.s, 4), fuel, <<>>)
  IN  IF ~IsOk(o) THEN o
      ELSE IF ~IsOk(es) THEN es
      ELSE Object(es.xs)

\* deserialize_any with the visitor of Value
Decode(mem, addr, fuel) ==
  LET ty == PeekType(mem, addr)
      n == Get(mem, addr, SizeofNumber)
  IN  IF fuel = 0 THEN VPanic("stack overflow")
      ELSE IF ~IsOk(ty) THEN ty
      ELSE CASE ty.i = OPA_NULL -> VNull
             [] ty.i = OPA_BOOLEAN -> ParseBool(mem, addr)
             [] ty.i = OPA_NUMBER ->
                  IF ~IsOk(n) THEN n
                  ELSE CASE n.s[2] = OPA_NUMBER_REPR_INT -> ParseInt(mem, addr)
                         [] n.s[2] = OPA_NUMBER_REPR_FLOAT -> ParseFloat(mem, addr)
                         [] n.s[2] = OPA_NUMBER_REPR_REF -> ParseNumberRef(mem, addr)
                         [] OTHER -> VErr("InvalidNumberRepr", n.s[2])
             [] ty.i = OPA_STRING -> ParseString(mem, addr)
             [] ty.i = OPA_ARRAY -> DeserializeSeq(mem, addr, fuel - 1)
             [] ty.i = OPA_OBJECT -> DeserializeMap(mem, addr, fuel - 1)
             [] ty.i = OPA_SET -> DeserializeSet(mem, addr, fuel - 1)
             [] OTHER -> VErr("UnknownType", ty.i)

\* from_instance::<Value>
from_instance(mem, addr) == Decode(mem, addr, MaxDepth)

\* to_instance(&value) on the heap h
to_instance(h, v) == Encode(h, v)

(***************************************************************************)
(* Decoding into a host type other than Value.  A type is a record         *)
(*   k   the method of the Deserializer its Deserialize impl calls,        *)
(*   of  the types of its parts (the payload of an Option, the element of  *)
(*       a Vec).                                                           *)
(* "enum" is an enum with the unit variant Unit and the newtype variant    *)
(* NewType(i64), "set" is Set<Value> and "ref" the number marker struct.   *)
(***************************************************************************)
Ty(k, of) == [k |-> k, of |-> of]
Option(t) == Ty("option", << t >>)
Vec(t) == Ty("seq", << t >>)

RECURSIVE Deserialize(_, _, _, _)
RECURSIVE ArrayAccessAs(_, _, _, _, _, _, _)
RECURSIVE SetAccessAs(_, _, _, _, _)

\* ArrayAccess::next_element_seed with the seed of the element type t
ArrayAccessAs(t, mem, elems, n, len, fuel, acc) ==
  IF n = len THEN VArray(acc)
  ELSE LET elem == Get(mem, elems + n * SizeofArrayElem, SizeofArrayElem)
           v == Deserialize(t, mem, Field(elem.s, 4), fuel)
       IN  IF ~IsOk(elem) THEN elem
           ELSE IF ~IsOk(v) THEN v
           ELSE ArrayAccessAs(t, mem, elems, n + 1, len, fuel, Append(acc, v))

\* SetAccess::next_element_seed with the seed of the element type t
SetAccessAs(t, mem, next, fuel, acc) ==
  IF next = 0 THEN VArray(acc)
  ELSE LET elem == Get(mem, next, SizeofSetElem)
           v == Deserialize(t, mem, Field(elem.s, 0), fuel)
       IN  IF ~IsOk(elem) THEN elem
           ELSE IF ~IsOk(v) THEN v
           ELSE SetAccessAs(t, mem, Field(elem.s, 4), fuel, Append(acc, v))

\* the integer types narrower than i64 and u64: signed or not, and bytes
IntTypes == { "i8", "u8", "i16", "u16", "i32", "u32", "u64" }
IsSigned(k) == k \in { "i8", "i16", "i32" }
SizeOf(k) == CASE k \in { "i8", "u8" } -> 1
               [] k \in { "i16", "u16" } -> 2
               [] k \in { "i32", "u32" } -> 4
               [] k = "u64" -> 8

\* T::MIN as i64 and T::MAX as i64, as the 8 bytes of the i64
MinAsI64(k) ==
  IF IsSigned(k) THEN [j \in 1..8 |-> IF j < SizeOf(k) THEN 0 ELSE IF j = SizeOf(k) THEN 128 ELSE 255]
  ELSE Pad(8)
MaxAsI64(k) ==
  IF IsSigned(k) THEN [j \in 1..8 |-> IF j < SizeOf(k) THEN 255 ELSE IF j = SizeOf(k) THEN 127 ELSE 0]
  ELSE [j \in 1..8 |-> IF j <= SizeOf(k) THEN 255 ELSE 0]

\* the byte j of an i64 as a digit of the order of i64: the sign bit of the
\* top byte counts downwards
OrdByte(a, j) == IF j = 8 THEN (a[8] + 128) % 256 ELSE a[j]

\* a < b on two i64 given by their 8 bytes
LtI64(a, b) ==
  \E j \in 1..8 : OrdByte(a, j) < OrdByte(b, j) /\ \A m \in (j + 1)..8 : a[m] = b[m]

\* u as Self: the low bytes of the i64
CastI64(k, u) == VNarrow(SubSeq(u, 1, SizeOf(k)))

\* the cast u as Self in the place of T::try_from(u)
TryFromI64Cast(k, u) == CastI64(k, u)

\* T::try_from(u) for u: i64.  u64 has the lower bound only (u >= 0), the
\* narrower types are tested against T::MIN and T::MAX
TryFromI64(k, u) ==
  IF k = "u64"
    THEN IF LtI64(u, Pad(8)) THEN VErr("IntegerConversion", 0) ELSE CastI64(k, u)
  ELSE IF LtI64(u, MinAsI64(k)) \/ LtI64(MaxAsI64(k), u) THEN VErr("IntegerConversion", 0)
  ELSE CastI64(k, u)

\* parse_int::<T> for a type T of IntTypes
ParseIntAs(k, mem, addr) ==
  LET ty == PeekType(mem, addr)
      n == Get(mem, addr, SizeofNumber)
  IN  IF ~IsOk(ty) THEN ty
      ELSE IF ty.i # OPA_NUMBER THEN VErr("ExpectedNumber", ty.i)
      ELSE IF ~IsOk(n) THEN n
      ELSE IF n.s[2] # OPA_NUMBER_REPR_INT THEN VErr("ExpectedInteger", n.s[2])
      ELSE TryFromI64(k, SubSeq(n.s, 9, 16))

\* deserialize_unit
deserialize_unit(mem, addr) ==
  LET ty == PeekType(mem, addr)
  IN  IF ~IsOk(ty) THEN ty
      ELSE IF ty.i = OPA_NULL THEN VUnit
      ELSE VErr("ExpectedNull", ty.i)

\* visit_some of Option<T>: the payload is read from the same node
visit_some(t, mem, addr, fuel) ==
  LET x == Deserialize(t, mem, addr, fuel) IN IF IsOk(x) THEN VSome(x) ELSE x

\* deserialize_option that never takes a null node for None
deserialize_option_some(t, mem, addr, fuel) ==
  LET ty == PeekType(mem, addr)
  IN  IF ~IsOk(ty) THEN ty ELSE visit_some(t, mem, addr, fuel)

\* deserialize_option
deserialize_option(t, mem, addr, fuel) ==
  LET ty == PeekType(mem, addr)
  IN  IF ~IsOk(ty) THEN ty
      ELSE IF ty.i = OPA_NULL THEN VNone
      ELSE visit_some(t, mem, addr, fuel)

\* deserialize_seq with the visitor of Vec<T>
deserialize_seq(t, mem, addr, fuel) ==
  LET ty == PeekType(mem, addr)
      a == Get(mem, addr, SizeofArray)
      s == Get(mem, addr, SizeofSet)
  IN  IF ~IsOk(ty) THEN ty
      ELSE IF ty.i = OPA_ARRAY
        THEN IF ~IsOk(a) THEN a
             ELSE ArrayAccessAs(t, mem, Field(a.s, 4), 0, Field(a.s, 8), fuel, <<>>)
      ELSE IF ty.i = OPA_SET
        THEN IF ~IsOk(s) THEN s ELSE SetAccessAs(t, mem, Field(s.s, 4), fuel, <<>>)
      ELSE VErr("ExpectedArray", ty.i)

\* deserialize_map with the visitor of a map from String to Value
deserialize_map(mem, addr, fuel) ==
  LET ty == PeekType(mem, addr)
  IN  IF ~IsOk(ty) THEN ty
      ELSE IF ty.i # OPA_OBJECT THEN VErr("ExpectedObject", ty.i)
      ELSE DeserializeMap(mem, addr, fuel)

\* the names of the variants, as the UTF-8 bytes of "Unit" and "NewType"
UnitName == << 85, 110, 105, 116 >>
NewTypeName == << 78, 101, 119, 84, 121, 112, 101 >>

\* the variant a name selects in the derived visitor of the enum
Variant(name, unit, newtype) ==
  IF ~IsOk(name) THEN name
  ELSE IF name.s = UnitName THEN unit
  ELSE IF name.s = NewTypeName THEN newtype
  ELSE VErr("Message", 0)

\* the value NewType(x)
visit_newtype(x) == IF IsOk(x) THEN VEntry(VStr(NewTypeName), x) ELSE x

\* EnumAccess::variant_seed, then unit_variant or newtype_variant_seed
EnumAccess(mem, addr) ==
  LET object == Get(mem, addr, SizeofObject)
      elem == Get(mem, Field(object.s, 4), SizeofObjectElem)
  IN  IF ~IsOk(object) THEN object
      ELSE IF ~IsOk(elem) THEN elem
      ELSE Variant(ParseString(mem, Field(elem.s, 0)),
                   VErr("ExpectedString", 0),
                   visit_newtype(ParseInt(mem, Field(elem.s, 4))))

\* deserialize_enum
deserialize_enum(mem, addr) ==
  LET ty == PeekType(mem, addr)
  IN  IF ~IsOk(ty) THEN ty
      ELSE IF ty.i = OPA_STRING
        THEN Variant(ParseString(mem, addr), VVariant(UnitName), VErr("Message", 0))
      ELSE IF ty.i = OPA_OBJECT THEN EnumAccess(mem, addr)
      ELSE VErr("ExpectedEnum", ty.i)

\* deserialize_struct: the set marker, the number marker, any other name
deserialize_struct(name, mem, addr, fuel) ==
  IF name = "set" THEN DeserializeSet(mem, addr, fuel)
  ELSE IF name = "ref" THEN ParseNumberRef(mem, addr)
  ELSE deserialize_map(mem, addr, fuel)

\* T::deserialize(&mut deserializer)
Deserialize(t, mem, addr, fuel) ==
  IF fuel = 0 THEN VPanic("stack overflow")
  ELSE CASE t.k = "any" -> Decode(mem, addr, fuel)
         [] t.k = "bool" -> ParseBool(mem, addr)
         [] t.k = "i64" -> ParseInt(mem, addr)
         [] t.k \in IntTypes -> ParseIntAs(t.k, mem, addr)
         [] t.k = "f64" -> ParseFloat(mem, addr)
         [] t.k = "str" -> ParseString(mem, addr)
         [] t.k = "unit" -> deserialize_unit(mem, addr)
         [] t.k = "option" -> deserialize_option(t.of[1], mem, addr, fuel)
         [] t.k = "seq" -> deserialize_seq(t.of[1], mem, addr, fuel - 1)
         [] t.k = "map" -> deserialize_map(mem, addr, fuel - 1)
         [] t.k = "enum" -> deserialize_enum(mem, addr)
         [] t.k \in {"set", "ref", "struct"} -> deserialize_struct(t.k, mem, addr, fuel - 1)

\* from_instance::<T>
from_instance_as(t, mem, addr) == Deserialize(t, mem, addr, MaxDepth)

(***************************************************************************)
(* The registry of built-in functions: one map per arity, keyed by name.   *)
(* Names are written as strings here and held as their UTF-8 bytes in      *)
(* values.                                                                 *)
(***************************************************************************)
\* the UTF-8 bytes of the names that occur in the model
Utf8(name) ==
  CASE name = "time.now_ns" -> << 116, 105, 109, 101, 46, 110, 111, 119, 95, 110, 115 >>
    [] name = "trace" -> << 116, 114, 97, 99, 101 >>
    [] name = "all" -> << 97, 108, 108 >>
    [] name = "any" -> << 97, 110, 121 >>
    [] name = "count" -> << 99, 111, 117, 110, 116 >>
    [] name = "max" -> << 109, 97, 120 >>
    [] name = "min" -> << 109, 105, 110 >>
    [] name = "product" -> << 112, 114, 111, 100, 117, 99, 116 >>
    [] name = "sort" -> << 115, 111, 114, 116 >>
    [] name = "sum" -> << 115, 117, 109 >>
    [] name = "abs" -> << 97, 98, 115 >>
    [] name = "round" -> << 114, 111, 117, 110, 100 >>
    [] name = "net.cidr_expand" -> << 110, 101, 116, 46, 99, 105, 100, 114, 95, 101, 120, 112, 97, 110, 100 >>
    [] name = "upper" -> << 117, 112, 112, 101, 114 >>
    [] name = "time.clock" -> << 116, 105, 109, 101, 46, 99, 108, 111, 99, 107 >>
    [] name = "time.date" -> << 116, 105, 109, 101, 46, 100, 97, 116, 101 >>
    [] name = "time.parse_rfc3339_ns" -> << 116, 105, 109, 101, 46, 112, 97, 114, 115, 101, 95, 114, 102, 99, 51, 51, 51, 57, 95, 110, 115 >>
    [] name = "time.weekday" -> << 116, 105, 109, 101, 46, 119, 101, 101, 107, 100, 97, 121 >>
    [] name = "is_array" -> << 105, 115, 95, 97, 114, 114, 97, 121 >>
    [] name = "is_boolean" -> << 105, 115, 95, 98, 111, 111, 108, 101, 97, 110 >>
    [] name = "is_null" -> << 105, 115, 95, 110, 117, 108, 108 >>
    [] name = "is_number" -> << 105, 115, 95, 110, 117, 109, 98, 101, 114 >>
    [] name = "is_object" -> << 105, 115, 95, 111, 98, 106, 101, 99, 116 >>
    [] name = "is_set" -> << 105, 115, 95, 115, 101, 116 >>
    [] name = "is_string" -> << 105, 115, 95, 115, 116, 114, 105, 110, 103 >>
    [] name = "type_name" -> << 116, 121, 112, 101, 95, 110, 97, 109, 101 >>
    [] name = "array.concat" -> << 97, 114, 114, 97, 121, 46, 99, 111, 110, 99, 97, 116 >>
    [] name = "plus" -> << 112, 108, 117, 115 >>
    [] name = "minus" -> << 109, 105, 110, 117, 115 >>
    [] name = "mul" -> << 109, 117, 108 >>
    [] name = "div" -> << 100, 105, 118 >>
    [] name = "rem" -> << 114, 101, 109 >>
    [] name = "net.cidr_contains" -> << 110, 101, 116, 46, 99, 105, 100, 114, 95, 99, 111, 110, 116, 97, 105, 110, 115 >>
    [] name = "net.cidr_intersects" -> << 110, 101, 116, 46, 99, 105, 100, 114, 95, 105, 110, 116, 101, 114, 115, 101, 99, 116, 115 >>
    [] name = "object.remove" -> << 111, 98, 106, 101, 99, 116, 46, 114, 101, 109, 111, 118, 101 >>
    [] name = "re_match" -> << 114, 101, 95, 109, 97, 116, 99, 104 >>
    [] name = "and" -> << 97, 110, 100 >>
    [] name = "or" -> << 111, 114 >>
    [] name = "array.slice" -> << 97, 114, 114, 97, 121, 46, 115, 108, 105, 99, 101 >>
    [] name = "object.get" -> << 111, 98, 106, 101, 99, 116, 46, 103, 101, 116 >>
    [] name = "nope" -> << 110, 111, 112, 101 >>
    [] name = "a" -> << 97 >>
    [] name = "b" -> << 98 >>
    [] name = "k" -> << 107 >>

Names(S) == { Utf8(n) : n \in S }

BUILTIN0 == Names({ "time.now_ns" })

BUILTIN1 ==
  Names({ "trace", "all", "any", "count", "max", "min", "product", "sort", "sum",
          "abs", "round", "net.cidr_expand", "upper", "time.clock", "time.date",
          "time.parse_rfc3339_ns", "time.weekday", "is_array", "is_boolean",
          "is_null", "is_number", "is_object", "is_set", "is_string", "type_name" })

BUILTIN2 ==
  Names({ "array.concat", "plus", "minus", "mul", "div", "rem", "net.cidr_contains",
          "net.cidr_intersects", "object.remove", "re_match", "and", "or" })

BUILTIN3 == Names({ "array.slice", "object.get" })

BUILTIN4 == {}

BUILTIN_NAMES == BUILTIN0 \cup BUILTIN1 \cup BUILTIN2 \cup BUILTIN3 \cup BUILTIN4

\* the map of the given arity
BuiltinMap(n) ==
  CASE n = 0 -> BUILTIN0
    [] n = 1 -> BUILTIN1
    [] n = 2 -> BUILTIN2
    [] n = 3 -> BUILTIN3
    [] n = 4 -> BUILTIN4

(***************************************************************************)
(* Built-in functions.  A function takes values and yields a value, an     *)
(* error (kind "err") or panics (kind "panic").  Modelled are the          *)
(* functions the guests of this model import; arithmetic is modelled on    *)
(* operands that are integers.                                             *)
(***************************************************************************)
IsDigit(c) == c >= 48 /\ c <= 57

RECURSIVE DigitsValue(_, _, _)
\* the number written by the decimal digits s[n..], behind the value acc
DigitsValue(s, n, acc) ==
  IF n > Len(s) THEN acc ELSE DigitsValue(s, n + 1, 10 * acc + (s[n] - 48))

\* str::parse::<i64> on strings of at most 9 digits: an optional sign, then
\* digits only
ParseI64(s) ==
  LET signed == Len(s) > 0 /\ s[1] \in {43, 45}
      from == IF signed THEN 2 ELSE 1
      ok == Len(s) >= from /\ Len(s) - from < 9 /\ \A j \in from..Len(s) : IsDigit(s[j])
      m == DigitsValue(s, from, 0)
  IN  IF ~ok THEN [ok |-> FALSE, i |-> 0]
      ELSE [ok |-> TRUE, i |-> IF signed /\ s[1] = 45 THEN 0 - m ELSE m]

\* Value::is_i64
is_i64(v) == v.k = "i64" \/ (v.k = "ref" /\ ParseI64(v.s).ok)

\* Value::try_into_i64
try_into_i64(v) ==
  IF v.k = "i64" THEN v
  ELSE IF v.k = "ref" /\ ParseI64(v.s).ok THEN VInt(ParseI64(v.s).i)
  ELSE VErr("InvalidType", Rank(v))

\* Value::try_into_object
try_into_object(v) == IF v.k = "map" THEN v ELSE VErr("InvalidType", Rank(v))

\* Value::try_into_string
try_into_string(v) == IF v.k = "str" THEN v ELSE VErr("InvalidType", Rank(v))

\* the operator / of i64: the quotient rounded towards zero
TruncDiv(a, b) ==
  LET q == (IF a < 0 THEN 0 - a ELSE a) \div (IF b < 0 THEN 0 - b ELSE b)
  IN  IF (a < 0) # (b < 0) THEN 0 - q ELSE q

\* the operator % of i64: the remainder with the sign of the dividend
TruncRem(a, b) == a - b * TruncDiv(a, b)

\* the integer arm of binary_op! and of minus: left $op right on two i64;
\* / and % panic on a zero divisor
IntOp(op, a, b) ==
  CASE op = "plus" -> VInt(a + b)
    [] op = "minus" -> VInt(a - b)
    [] op = "mul" -> VInt(a * b)
    [] op = "div" -> IF b = 0 THEN VPanic("attempt to divide by zero")
                     ELSE VInt(TruncDiv(a, b))
    [] op = "rem" -> IF b = 0
                       THEN VPanic("attempt to calculate the remainder with a divisor of zero")
                     ELSE VInt(TruncRem(a, b))

(***************************************************************************)
(* Integers of the full width of i64 are held as their 8 bytes, least      *)
(* significant first (kind "long"); the arithmetic on them works byte by   *)
(* byte.  Where the result of an operation of i64 overflows, the build     *)
(* decides: with overflow checks (the dev profile) the operation panics,   *)
(* without them (the release profile) the result wraps.  Such a result is  *)
(* of the kind "overflow" and stands for both.                             *)
(***************************************************************************)
VOverflow(e, s) == Mk("overflow", FALSE, 0, s, <<>>, e)

RECURSIVE AddBytes(_, _, _, _, _)
\* the bytes j.. of a + b + carry, behind the bytes acc: a wrapping sum
AddBytes(a, b, j, carry, acc) ==
  IF j > Len(a) THEN acc
  ELSE AddBytes(a, b, j + 1, (a[j] + b[j] + carry) \div 256,
                Append(acc, (a[j] + b[j] + carry) % 256))

\* !b, bit by bit
NotBytes(b) == [j \in 1..Len(b) |-> 255 - b[j]]

\* the wrapping sum and difference
WrappingAdd(a, b) == AddBytes(a, b, 1, 0, << >>)
WrappingSub(a, b) == AddBytes(a, NotBytes(b), 1, 1, << >>)

RECURSIVE Dot(_, _, _, _)
\* the sum of the products a[i] * b[k + 1 - i] for i = j..k
Dot(a, b, k, j) == IF j > k THEN 0 ELSE a[j] * b[k + 1 - j] + Dot(a, b, k, j + 1)

RECURSIVE MulBytes(_, _, _, _, _)
\* the bytes k.. of a * b, behind the bytes acc: a wrapping product
MulBytes(a, b, k, carry, acc) ==
  IF k > Len(a) THEN acc
  ELSE MulBytes(a, b, k + 1, (Dot(a, b, k, 1) + carry) \div 256,
                Append(acc, (Dot(a, b, k, 1) + carry) % 256))

WrappingMul(a, b) == MulBytes(a, b, 1, 0, << >>)

\* an integer extended by its sign to 16 bytes
SignExtend(a) == [j \in 1..16 |-> IF j <= Len(a) THEN a[j] ELSE IF a[Len(a)] >= 128 THEN 255 ELSE 0]

IsNegative(a) == a[Len(a)] >= 128

\* i64::overflowing_add, overflowing_sub, overflowing_mul: the wrapped
\* result and whether the operation overflowed
OverflowingAdd(a, b) ==
  [s |-> WrappingAdd(a, b),
   o |-> IsNegative(a) = IsNegative(b) /\ IsNegative(WrappingAdd(a, b)) # IsNegative(a)]
OverflowingSub(a, b) ==
  [s |-> WrappingSub(a, b),
   o |-> IsNegative(a) # IsNegative(b) /\ IsNegative(WrappingSub(a, b)) # IsNegative(a)]
OverflowingMul(a, b) ==
  [s |-> WrappingMul(a, b),
   o |-> SubSeq(WrappingMul(SignExtend(a), SignExtend(b)), 1, 16) # SignExtend(WrappingMul(a, b))]

\* the result of an operator of i64 from overflowing_op on
Checked(r, e) == IF r.o THEN VOverflow(e, r.s) ELSE VLong(r.s)

\* the integer arm of binary_op! and of minus on two i64 of full width
LongOp(op, a, b) ==
  CASE op = "plus" -> Checked(OverflowingAdd(a, b), "attempt to add with overflow")
    [] op = "minus" -> Checked(OverflowingSub(a, b), "attempt to subtract with overflow")
    [] op = "mul" -> Checked(OverflowingMul(a, b), "attempt to multiply with overflow")

\* i64::abs on an i64 of full width
LongAbs(a) ==
  IF IsNegative(a) THEN Checked(OverflowingSub(Pad(8), a), "attempt to negate with overflow")
  ELSE VLong(a)

\* what a build makes of the result r of a function
Outcomes(r) == IF r.k = "overflow" THEN { VPanic(r.e), VLong(r.s) } ELSE { r }

(***************************************************************************)
(* Doubles.  A Value holds a double as its 8 little-endian bytes; the      *)
(* arithmetic works on the record [cls, neg, q]: class "fin", "inf" or     *)
(* "nan", sign, and magnitude q in units of 1/FracUnit.  The doubles of    *)
(* the model are the multiples of 1/FracUnit below 512, on which every     *)
(* operation below is exact.                                               *)
(***************************************************************************)
FracUnit == 16
ExpBias == 1023

Fin(neg, q) == [cls |-> "fin", neg |-> neg, q |-> q]
Inf(neg) == [cls |-> "inf", neg |-> neg, q |-> 0]
NaN == [cls |-> "nan", neg |-> FALSE, q |-> 0]
\* f64::MAX and, with neg, f64::MIN: the finite doubles of the largest
\* magnitude (class "max")
F64Max(neg) == [cls |-> "max", neg |-> neg, q |-> 0]

RECURSIVE Pow2(_)
Pow2(n) == IF n <= 0 THEN 1 ELSE 2 * Pow2(n - 1)

RECURSIVE Log2(_)
\* the position of the highest bit of q > 0
Log2(q) == IF q < 2 THEN 0 ELSE 1 + Log2(q \div 2)

\* f64::to_bits as little-endian bytes: sign, 11 bits of exponent, and the
\* 12 leading bits of the fraction (the 40 bits behind them are 0)
F64Bits(neg, e, frac) ==
  << 0, 0, 0, 0, 0, frac % 256, (e % 16) * 16 + frac \div 256,
     (IF neg THEN 128 ELSE 0) + e \div 16 >>

F64Bytes(x) ==
  CASE x.cls = "nan" -> F64Bits(FALSE, 2047, 2048)
    [] x.cls = "max" -> << 255, 255, 255, 255, 255, 255, 239, IF x.neg THEN 255 ELSE 127 >>
    [] x.cls = "inf" -> F64Bits(x.neg, 2047, 0)
    [] x.q = 0 -> F64Bits(x.neg, 0, 0)
    [] OTHER -> F64Bits(x.neg, Log2(x.q) - Log2(FracUnit) + ExpBias,
                        (x.q - Pow2(Log2(x.q))) * Pow2(12 - Log2(x.q)))

\* f64::from_bits of 8 little-endian bytes
F64OfBytes(f) ==
  LET neg == f[8] >= 128
      e == (f[8] % 128) * 16 + f[7] \div 16
      frac == (f[7] % 16) * 256 + f[6]
      shift == ExpBias + 12 - Log2(FracUnit) - e
  IN  IF e = 2047
        THEN IF frac = 0 /\ SubSeq(f, 1, 5) = Pad(5) THEN Inf(neg) ELSE NaN
      ELSE IF e = 2046 /\ frac = 4095 THEN F64Max(neg)
      ELSE IF e = 0 /\ frac = 0 THEN Fin(neg, 0)
      ELSE Fin(neg, (4096 + frac) \div Pow2(shift))

VFloat(x) == Mk("f64", FALSE, 0, F64Bytes(x), <<>>, "")

\* i64 as f64
F64OfInt(n) == Fin(n < 0, (IF n < 0 THEN 0 - n ELSE n) * FracUnit)

\* str::parse::<f64> on the strings of the model: an optional sign, at most
\* 3 digits, and at most one fractional digit, 0 or 5
ParseF64(s) ==
  LET signed == Len(s) > 0 /\ s[1] \in {43, 45}
      from == IF signed THEN 2 ELSE 1
      dot == { j \in from..Len(s) : s[j] = 46 }
      to == IF dot = {} THEN Len(s) ELSE (CHOOSE j \in dot : TRUE) - 1
      ok == /\ to >= from /\ to - from < 3
            /\ \A j \in from..to : IsDigit(s[j])
            /\ dot # {} => (Len(s) = to + 2 /\ s[Len(s)] \in {48, 53})
      q == DigitsValue(SubSeq(s, from, to), 1, 0) * FracUnit
             + (IF dot # {} /\ s[Len(s)] = 53 THEN FracUnit \div 2 ELSE 0)
  IN  IF ~ok THEN [ok |-> FALSE, x |-> NaN]
      ELSE [ok |-> TRUE, x |-> Fin(signed /\ s[1] = 45, q)]

\* Number::try_into_f64; ok is FALSE for Err(InvalidType("f64", ...))
try_into_f64(v) ==
  CASE v.k = "i64" -> [ok |-> TRUE, x |-> F64OfInt(v.i)]
    [] v.k = "f64" -> [ok |-> TRUE, x |-> F64OfBytes(v.s)]
    [] v.k = "ref" -> ParseF64(v.s)

\* the signed magnitude of a finite double
Signed(x) == IF x.neg THEN 0 - x.q ELSE x.q

\* the finite double of the signed magnitude n; the sign of a zero is neg
OfSigned(n, neg) == IF n = 0 THEN Fin(neg, 0) ELSE Fin(n < 0, IF n < 0 THEN 0 - n ELSE n)

\* left $op right on two finite f64
FloatOp(op, a, b) ==
  CASE op = "plus" -> OfSigned(Signed(a) + Signed(b), a.neg /\ b.neg)
    [] op = "minus" -> OfSigned(Signed(a) - Signed(b), a.neg /\ ~b.neg)
    [] op = "mul" -> Fin(a.neg # b.neg, (a.q * b.q) \div FracUnit)
    [] op = "div" -> IF b.q # 0 THEN Fin(a.neg # b.neg, (a.q * FracUnit) \div b.q)
                     ELSE IF a.q # 0 THEN Inf(a.neg # b.neg)
                     ELSE NaN
    [] op = "rem" -> IF b.q # 0 THEN Fin(a.neg, a.q % b.q) ELSE NaN

\* the float arm of binary_op! and of minus: both operands are
\* Value::Number; the result goes through From<f64> for Number, which takes
\* every double
NumberOp(op, left, right) ==
  IF ~try_into_f64(left).ok THEN VErr("InvalidType", Rank(left))
  ELSE IF ~try_into_f64(right).ok THEN VErr("InvalidType", Rank(right))
  ELSE VFloat(FloatOp(op, try_into_f64(left).x, try_into_f64(right).x))

IsNumber(v) == v.k \in {"i64", "f64", "ref"}

\* binary_op!(plus, +), binary_op!(mul, *), binary_op!(div, /),
\* binary_op!(rem, %)
binary_op(op, left, right) ==
  IF is_i64(left) /\ is_i64(right)
    THEN IntOp(op, try_into_i64(left).i, try_into_i64(right).i)
  ELSE IF left.k = "long" /\ right.k = "long" THEN LongOp(op, left.s, right.s)
  ELSE IF IsNumber(left) /\ IsNumber(right) THEN NumberOp(op, left, right)
  ELSE VErr("InvalidType", Rank(left))

RECURSIVE Difference(_, _, _, _)
\* BTreeSet::difference of the ordered elements xs and ys, from position n
Difference(xs, ys, n, acc) ==
  IF n > Len(xs) THEN acc
  ELSE IF \E j \in 1..Len(ys) : ys[j] = xs[n] THEN Difference(xs, ys, n + 1, acc)
  ELSE Difference(xs, ys, n + 1, Append(acc, xs[n]))

\* numbers::minus
minus(left, right) ==
  IF is_i64(left) /\ is_i64(right)
    THEN IntOp("minus", try_into_i64(left).i, try_into_i64(right).i)
  ELSE IF left.k = "long" /\ right.k = "long" THEN LongOp("minus", left.s, right.s)
  ELSE IF IsNumber(left) /\ IsNumber(right) THEN NumberOp("minus", left, right)
  ELSE IF left.k = "set" /\ right.k = "set"
    THEN Set(Difference(left.xs, right.xs, 1, <<>>))
  ELSE VErr("InvalidType", Rank(left))

\* unary_op!(abs, abs)
abs(val) ==
  IF is_i64(val)
    THEN VInt(IF try_into_i64(val).i < 0 THEN 0 - try_into_i64(val).i ELSE try_into_i64(val).i)
  ELSE IF val.k = "long" THEN LongAbs(val.s)
  ELSE IF IsNumber(val)
    THEN IF ~try_into_f64(val).ok THEN VErr("InvalidType", Rank(val))
         ELSE VFloat([try_into_f64(val).x EXCEPT !.neg = FALSE])
  ELSE VErr("InvalidType", Rank(val))

\* a < b on two doubles that are finite
LtF64(a, b) ==
  IF a.cls = "max" THEN a.neg /\ ~(b.cls = "max" /\ b.neg)
  ELSE IF b.cls = "max" THEN ~b.neg
  ELSE Signed(a) < Signed(b)

\* f64::min and f64::max on two finite doubles
FloatFunc(op, a, b) ==
  CASE op = "min" -> IF LtF64(b, a) THEN b ELSE a
    [] op = "max" -> IF LtF64(a, b) THEN b ELSE a

\* Ord::min and Ord::max on two i64
IntFunc(op, a, b) ==
  CASE op = "min" -> IF b < a THEN b ELSE a
    [] op = "max" -> IF b < a THEN a ELSE b

\* binary_op_func!(min, min), binary_op_func!(max, max)
binary_op_func(op, left, right) ==
  IF is_i64(left) /\ is_i64(right)
    THEN VInt(IntFunc(op, try_into_i64(left).i, try_into_i64(right).i))
  ELSE IF IsNumber(left) /\ IsNumber(right)
    THEN IF ~try_into_f64(left).ok THEN VErr("InvalidType", Rank(left))
         ELSE IF ~try_into_f64(right).ok THEN VErr("InvalidType", Rank(right))
         ELSE VFloat(FloatFunc(op, try_into_f64(left).x, try_into_f64(right).x))
  ELSE VErr("InvalidType", Rank(left))

\* Value::as_bool: ok is FALSE for None
as_bool(v) == [ok |-> v.k = "bool", b |-> v.b]

\* aggregates::for_all
for_all(left, right) ==
  IF as_bool(left).ok /\ as_bool(right).ok THEN VBool(as_bool(left).b /\ as_bool(right).b)
  ELSE VBool(FALSE)

\* aggregates::for_any
for_any(left, right) ==
  IF as_bool(left).ok /\ as_bool(right).ok THEN VBool(as_bool(left).b \/ as_bool(right).b)
  ELSE VBool(FALSE)

\* $init.into() and $op of binary_loop!(min, std::f64::MAX, numbers::min),
\* (max, std::f64::MIN, numbers::max), (all, true, for_all) and
\* (any, false, for_any)
LoopInit(name) ==
  CASE name = "min" -> VFloat(F64Max(FALSE))
    [] name = "max" -> VFloat(F64Max(TRUE))
    [] name = "all" -> VBool(TRUE)
    [] name = "any" -> VBool(FALSE)
LoopOp(name, acc, v) ==
  CASE name \in { "min", "max" } -> binary_op_func(name, acc, v)
    [] name = "all" -> for_all(acc, v)
    [] name = "any" -> for_any(acc, v)

RECURSIVE do_op(_, _, _, _)
\* do_op of binary_loop!: the fold over the elements n.. of xs, an error
\* being kept to the end
do_op(name, acc, xs, n) ==
  IF n > Len(xs) THEN acc
  ELSE IF ~IsOk(acc) THEN do_op(name, acc, xs, n + 1)
  ELSE do_op(name, LoopOp(name, acc, xs[n]), xs, n + 1)

\* the functions binary_loop! defines: aggregates::min, max, all and any
binary_loop(name, val) ==
  IF val.k \in { "seq", "set" } THEN do_op(name, LoopInit(name), val.xs, 1)
  ELSE VErr("InvalidType", Rank(val))

\* aggregates::count
count(val) ==
  IF val.k \in {"seq", "map", "set"} THEN VInt(Len(val.xs))
  ELSE IF val.k = "str" THEN VInt(Len(val.s))
  ELSE VErr("InvalidType", Rank(val))

\* types::is_null
is_null(val) == VBool(val.k = "null")

\* objects::get
get(object, key, default) ==
  LET o == try_into_object(object)
      k == try_into_string(key)
      hit == { j \in 1..Len(o.xs) : o.xs[j].xs[1] = k }
  IN  IF ~IsOk(o) THEN o
      ELSE IF ~IsOk(k) THEN k
      ELSE IF hit = {} THEN default
      ELSE o.xs[CHOOSE j \in hit : TRUE].xs[2]

\* Value::try_into_array
try_into_array(v) == IF v.k = "seq" THEN v ELSE VErr("InvalidType", Rank(v))

\* array[start..end] of a Vec: the index panics unless start <= end <= len
Index(xs, start, end) ==
  IF start > end THEN VPanic("slice index starts after its end")
  ELSE IF end > Len(xs) THEN VPanic("range end index out of range")
  ELSE VArray(SubSeq(xs, start + 1, end))

\* cmp::max
Max(a, b) == IF a > b THEN a ELSE b

\* the bounds of slice taken without the clamp to the length
SliceUnclamped(xs, start, end) ==
  IF start >= end \/ (start < 0 /\ end < 0) THEN VArray(<< >>)
  ELSE Index(xs, Max(start, 0), Max(end, 0))
\* arrays::slice behind its conversions: array is the Vec, start and end
\* are the i64
Slice(xs, start, end) ==
  IF start >= end \/ (start < 0 /\ end < 0) THEN VArray(<< >>)
  ELSE Index(xs, Min(Max(start, 0), Len(xs)), Min(Max(end, 0), Len(xs)))

\* arrays::slice
slice(val, start, end) ==
  IF ~IsOk(try_into_array(val)) THEN try_into_array(val)
  ELSE IF ~IsOk(try_into_i64(start)) THEN try_into_i64(start)
  ELSE IF ~IsOk(try_into_i64(end)) THEN try_into_i64(end)
  ELSE Slice(val.xs, try_into_i64(start).i, try_into_i64(end).i)

\* nanoseconds per second, seconds per day
NanosPerSec == 1000000000
SecsPerDay == 86400

\* Utc.timestamp_nanos(nanos): the second of the day and the day of the
\* week, counted from Monday = 0; the day 0 is Thursday, 1 January 1970
TimestampNanos(nanos) ==
  [sec |-> (nanos \div NanosPerSec) % SecsPerDay,
   weekday |-> (((nanos \div NanosPerSec) \div SecsPerDay) + 3) % 7]

\* weekday_to_string, the name as its UTF-8 bytes
weekday_to_string(d) ==
  CASE d = 0 -> VStr(<< 77, 111, 110, 100, 97, 121 >>)
    [] d = 1 -> VStr(<< 84, 117, 101, 115, 100, 97, 121 >>)
    [] d = 2 -> VStr(<< 87, 101, 100, 110, 101, 115, 100, 97, 121 >>)
    [] d = 3 -> VStr(<< 84, 104, 117, 114, 115, 100, 97, 121 >>)
    [] d = 4 -> VStr(<< 70, 114, 105, 100, 97, 121 >>)
    [] d = 5 -> VStr(<< 83, 97, 116, 117, 114, 100, 97, 121 >>)
    [] d = 6 -> VStr(<< 83, 117, 110, 100, 97, 121 >>)

\* the strings "UTC" and ""
UTC == << 85, 84, 67 >>

\* vec![datetime.hour(), datetime.minute(), datetime.second()].into()
HourMinuteSecond(t) ==
  Array(<< VInt(t.sec \div 3600), VInt((t.sec \div 60) % 60), VInt(t.sec % 60) >>)

\* time::weekday.  Of the time zones, "UTC" and "" are modelled; the other
\* strings of the model name no zone of the tz database
weekday(value) ==
  IF IsNumber(value) /\ is_i64(value)
    THEN HourMinuteSecond(TimestampNanos(try_into_i64(value).i))
  ELSE IF value.k = "seq" /\ Len(value.xs) = 2
    THEN IF ~is_i64(value.xs[1]) THEN VErr("InvalidType", Rank(value.xs[1]))
         ELSE IF value.xs[2].k # "str" THEN VErr("InvalidType", Rank(value.xs[2]))
         ELSE IF value.xs[2].s \in { UTC, << >> }
           THEN weekday_to_string(TimestampNanos(try_into_i64(value.xs[1]).i).weekday)
         ELSE VErr("UnknownTimezone", 0)
  ELSE VErr("InvalidType", Rank(value))

\* time::now_ns, the wall clock reading now
now_ns(now) == VInt(now)

\* the function registered under name in the map of arity n, applied
Apply(n, name, args, now) ==
  CASE n = 0 /\ name = Utf8("time.now_ns") -> now_ns(now)
    [] n = 1 /\ name = Utf8("count") -> count(args[1])
    [] n = 1 /\ name = Utf8("is_null") -> is_null(args[1])
    [] n = 1 /\ name = Utf8("abs") -> abs(args[1])
    [] n = 1 /\ name = Utf8("time.weekday") -> weekday(args[1])
    [] n = 1 /\ name = Utf8("min") -> binary_loop("min", args[1])
    [] n = 1 /\ name = Utf8("max") -> binary_loop("max", args[1])
    [] n = 1 /\ name = Utf8("all") -> binary_loop("all", args[1])
    [] n = 1 /\ name = Utf8("any") -> binary_loop("any", args[1])
    [] n = 2 /\ name = Utf8("plus") -> binary_op("plus", args[1], args[2])
    [] n = 2 /\ name = Utf8("mul") -> binary_op("mul", args[1], args[2])
    [] n = 2 /\ name = Utf8("div") -> binary_op("div", args[1], args[2])
    [] n = 2 /\ name = Utf8("rem") -> binary_op("rem", args[1], args[2])
    [] n = 2 /\ name = Utf8("minus") -> minus(args[1], args[2])
    [] n = 3 /\ name = Utf8("array.slice") -> slice(args[1], args[2], args[3])
    [] n = 3 /\ name = Utf8("object.get") -> get(args[1], args[2], args[3])

(***************************************************************************)
(* The dispatcher.  Its slot is empty until initialization has built the   *)
(* reverse map lookup (id -> name); a callback yields the heap it leaves,  *)
(* the address ret it returns to the guest and its outcome out: "ok", the  *)
(* name of the error that btry! turned into address 0, or "panic".         *)
(***************************************************************************)
EmptySlot == [full |-> FALSE, lookup |-> << >>]

\* HashMap::insert
Insert(lookup, id, name) ==
  [x \in DOMAIN lookup \cup {id} |-> IF x = id THEN name ELSE lookup[x]]

RECURSIVE InnerNewLoop(_, _, _)
\* the loop of Inner::new over the entries es of the table, from entry n
InnerNewLoop(es, n, lookup) ==
  IF n > Len(es) THEN [err |-> NoErr, name |-> << >>, lookup |-> lookup]
  ELSE LET k == es[n].xs[1].s
           v == try_into_i64(es[n].xs[2])
       IN  IF k \notin BUILTIN_NAMES
             THEN [err |-> "UnknownBuiltin", name |-> k, lookup |-> << >>]
           ELSE IF ~IsOk(v)
             THEN [err |-> "InvalidType", name |-> << >>, lookup |-> << >>]
           ELSE InnerNewLoop(es, n + 1, Insert(lookup, v.i, k))

\* Inner::new from the decoded table on
InnerNewOf(val) ==
  IF ~IsOk(val) THEN [err |-> val.e, name |-> << >>, lookup |-> << >>]
  ELSE IF ~IsOk(try_into_object(val))
    THEN [err |-> "InvalidType", name |-> << >>, lookup |-> << >>]
  ELSE InnerNewLoop(try_into_object(val).xs, 1, << >>)

\* Inner::new, given the address the export builtins() returned
InnerNew(mem, addr) == InnerNewOf(from_instance(mem, addr))

\* Builtins::replace from the return of Inner::new on
ReplaceWith(slot, inner) ==
  IF inner.err # NoErr THEN [err |-> inner.err, name |-> inner.name, slot |-> slot]
  ELSE [err |-> NoErr, name |-> << >>, slot |-> [full |-> TRUE, lookup |-> inner.lookup]]

\* replace that fills the slot before the table is checked
ReplaceUnchecked(slot, mem, addr) ==
  [ReplaceWith(slot, InnerNew(mem, addr))
     EXCEPT !.slot = [full |-> TRUE, lookup |-> IF @.full THEN @.lookup ELSE << >>]]

\* Builtins::replace
Replace(slot, mem, addr) == ReplaceWith(slot, InnerNew(mem, addr))

Called(h, ret, out) == [h |-> h, ret |-> ret, out |-> out]

\* the first of the decoded arguments that is not a value, 0 if all are
FirstBad(vals) ==
  IF \E j \in 1..Len(vals) : ~IsOk(vals[j])
    THEN CHOOSE j \in 1..Len(vals) : ~IsOk(vals[j]) /\ \A m \in 1..(j - 1) : IsOk(vals[m])
    ELSE 0

\* what btry! makes of a failed step: address 0 for an error; a panic is
\* not a value of the Result and unwinds through the adapter
Btry(h, r) == IF IsPanic(r) THEN Called(h, 0, "panic") ELSE Called(h, 0, r.e)

\* Inner::builtinN, the end: the result is encoded and its address returned
BuiltinReturn(h, e) ==
  IF e.h.err # NoErr THEN Called([e.h EXCEPT !.err = NoErr], 0, e.h.err)
  ELSE Called(e.h, e.a, "ok")

\* Inner::builtinN from the result of the function on
BuiltinResult(h, result) ==
  IF ~IsOk(result) THEN Btry(h, result) ELSE BuiltinReturn(h, to_instance(h, result))

\* Inner::builtinN from the decoded arguments on
BuiltinArgs(h, n, name, vals, now) ==
  IF FirstBad(vals) # 0 THEN Btry(h, vals[FirstBad(vals)])
  ELSE BuiltinResult(h, Apply(n, name, vals, now))

\* Inner::builtin0 .. Inner::builtin4 (n is the arity)
InnerBuiltin(lookup, h, n, id, args, now) ==
  IF id \notin DOMAIN lookup THEN Called(h, 0, "UnknownBuiltinId")
  ELSE IF lookup[id] \notin BuiltinMap(n) THEN Called(h, 0, "UnknownBuiltin")
  ELSE BuiltinArgs(h, n, lookup[id], [j \in 1..n |-> from_instance(h.mem, args[j])], now)

\* builtinN that goes on to Inner::builtinN whatever the slot holds
BuiltinUnguarded(slot, h, n, id, args, now) ==
  InnerBuiltin(slot.lookup, h, n, id, args, now)

\* Builtins::builtin0 .. Builtins::builtin4
Builtin(slot, h, n, id, args, now) ==
  IF ~slot.full THEN Called(h, 0, "Initialization")
  ELSE InnerBuiltin(slot.lookup, h, n, id, args, now)

(***************************************************************************)
(* The guest: the exports of the wasm module.  The guest allocates with    *)
(* opa_malloc and writes its own nodes; what it writes is not counted as   *)
(* written by the host.  A trap of the guest shows as h.err = "Trap".      *)
(***************************************************************************)
\* lowest address of the heap of a fresh instance
HeapBase == 8
\* bytes of an evaluation context: the fields input, data and result
SizeofCtx == 12

\* the heap of a fresh instance
FreshHeap ==
  [mem |-> [a \in 0..(MemSize - 1) |-> 0], heap_ptr |-> HeapBase,
   heap_top |-> InitialPages * PageSize, wlo |-> MemSize, err |-> NoErr,
   arg |-> << >>]

\* a store of the guest into its own memory
GuestWrite(h, addr, bytes) == [MemorySet(h, addr, bytes, "Trap") EXCEPT !.wlo = h.wlo]

\* the guest allocates a node and writes it
GuestStore(h, bytes) ==
  LET r == opa_malloc(h, Len(bytes))
  IN  IF h.err # NoErr THEN Ret(h, 0)
      ELSE IF r.h.err # NoErr THEN r
      ELSE Ret(GuestWrite(r.h, r.a, bytes), r.a)

\* export builtins: the guest builds the object of the built-ins it needs
builtins(h, table) ==
  [Encode(h, table) EXCEPT !.h.wlo = h.wlo, !.h.err = IF @ = NoErr THEN NoErr ELSE "Trap"]

\* exports eval_ctx_new, eval_ctx_set_input, eval_ctx_set_data and
\* eval_ctx_get_result
eval_ctx_new(h) == GuestStore(h, Pad(SizeofCtx))
eval_ctx_set_input(h, ctx, addr) == GuestWrite(h, ctx, LE32(addr))
eval_ctx_set_data(h, ctx, addr) == GuestWrite(h, ctx + 4, LE32(addr))
eval_ctx_get_result(mem, ctx) == Field(Bytes(mem, ctx, SizeofCtx), 8)

\* HostExternals::invoke_index on the index of opa_abort: abort prints and
\* the call returns to the guest, no trap is raised
InvokeAbort == [trap |-> FALSE]

Ran(h, calls, abort, panic) == [h |-> h, calls |-> calls, abort |-> abort, panic |-> panic]

\* the guest stores the address of its result into the context
SetResult(r, ctx) == GuestWrite(r.h, ctx + 8, LE32(r.a))

\* the policy answers with the pair of its input and the data
Echo(h, ctx, input, data) ==
  LET t == GuestStore(h, ArrayElemBytes(0, input) \o ArrayElemBytes(0, data))
  IN  SetResult(GuestStore(t.h, ArrayBytes(t.a, 2)), ctx)

\* what the policy makes of the call c of the built-in id with n arguments:
\* it answers with what the call returned; address 0 makes the rule
\* undefined (the empty set), a call without arguments is compared against
\* 0 (true)
CallReturn(ctx, n, id, c) ==
  LET rec == [n |-> n, id |-> id, ret |-> c.ret, out |-> c.out]
  IN  IF c.out = "panic" THEN Ran(c.h, << rec >>, FALSE, TRUE)
      ELSE Ran(SetResult(IF c.ret = 0 THEN GuestStore(c.h, SetBytes(0))
                         ELSE IF n = 0 THEN GuestStore(c.h, BooleanBytes(TRUE))
                         ELSE Ret(c.h, c.ret), ctx),
               << rec >>, FALSE, FALSE)

\* the policy calls the built-in id with the elements 2.. of its input as
\* arguments.  A negative first element -id calls the built-in id with
\* arguments that are no nodes.
Call(h, slot, ctx, input, now) ==
  LET arr == Bytes(h.mem, input, SizeofArray)
      n == Field(arr, 8) - 1
      elem(j) == Field(Bytes(h.mem, Field(arr, 4) + j * SizeofArrayElem, SizeofArrayElem), 4)
      first == Field(Bytes(h.mem, elem(0), SizeofNumber), 8)
      id == IF first < 0 THEN 0 - first ELSE first
      bad == GuestStore(h, << 0 >>)
  IN  CallReturn(ctx, n, id,
                 Builtin(slot, IF first < 0 THEN bad.h ELSE h, n, id,
                         [j \in 1..n |-> IF first < 0 THEN bad.a ELSE elem(j)], now))

\* TRUE iff the input is an array that starts with an integer and has at
\* most four more elements
IsCall(mem, input) ==
  /\ mem[input] = OPA_ARRAY
  /\ LET arr == Bytes(mem, input, SizeofArray)
         first == Field(Bytes(mem, Field(arr, 4), SizeofArrayElem), 4)
     IN  /\ Field(arr, 8) \in 1..5
         /\ mem[first] = OPA_NUMBER
         /\ mem[first + 1] = OPA_NUMBER_REPR_INT

\* export eval: the policy of the module, run on the context ctx.
\*   null    the policy runs into unreachable code: a trap
\*   true    the policy calls opa_abort and, when the call returns, goes on
\*   false   the policy leaves a result that is no node
\*   a call  see Call
\*   else    see Echo
eval(h, slot, ctx, now) ==
  LET c == Bytes(h.mem, ctx, SizeofCtx)
      input == Field(c, 0)
      data == Field(c, 4)
      tag == h.mem[input]
      v == Field(Bytes(h.mem, input, SizeofBoolean), 4)
  IN  IF tag = OPA_NULL THEN Ran(Fail(h, "Trap"), << >>, FALSE, FALSE)
      ELSE IF tag = OPA_BOOLEAN /\ v # 0
        THEN IF InvokeAbort.trap THEN Ran(Fail(h, "Trap"), << >>, TRUE, FALSE)
             ELSE Ran(Echo(h, ctx, input, data), << >>, TRUE, FALSE)
      ELSE IF tag = OPA_BOOLEAN
        THEN Ran(SetResult(GuestStore(h, << 0 >>), ctx), << >>, FALSE, FALSE)
      ELSE IF IsCall(h.mem, input) THEN Call(h, slot, ctx, input, now)
      ELSE Ran(Echo(h, ctx, input, data), << >>, FALSE, FALSE)

(***************************************************************************)
(* The Policy facade as functions of the state they act on.                *)
(***************************************************************************)
Heap(m, ptr, top) ==
  [mem |-> m, heap_ptr |-> ptr, heap_top |-> top, wlo |-> MemSize, err |-> NoErr,
   arg |-> << >>]

\* the instance with the heap h and what Builtins::replace made of the slot
InstanceOf(h, r) == [h |-> h, err |-> r.err, name |-> r.name, slot |-> r.slot]

\* Instance::new from the return of the export builtins on
InstanceReplace(t) ==
  IF t.h.err # NoErr THEN [h |-> t.h, err |-> "Trap", name |-> << >>, slot |-> EmptySlot]
  ELSE InstanceOf(t.h, Replace(EmptySlot, t.h.mem, t.a))

\* the exports the host calls by name
Required ==
  { "opa_malloc", "opa_json_parse", "opa_json_dump", "opa_heap_ptr_get",
    "opa_heap_ptr_set", "opa_heap_top_get", "opa_heap_top_set", "opa_eval_ctx_new",
    "opa_eval_ctx_set_input", "opa_eval_ctx_set_data", "opa_eval_ctx_get_result",
    "eval", "builtins" }

\* ModuleRef::invoke_export(name, ..) on a module without the export name
\* fails (Error::Wasmi) and runs nothing
Lacks(exports, name) == name \notin exports

\* FunctionsImpl::new and Functions::from_impl: Ok for every set of exports
FunctionsNew(exports) == [err |-> NoErr, exports |-> exports]

\* FunctionsImpl::from_instance of the wasmtime backend, which
\* runtime/mod.rs does not compile in: the first export of the list that
\* the module lacks is a MissingExport error
FunctionsFromInstance(exports) ==
  [err |-> IF Required \subseteq exports THEN NoErr ELSE "MissingExport", exports |-> exports]

\* the functions of the instance; the backend is wasmi
Functions(exports) == FunctionsNew(exports)

NoInstance(err) == [h |-> FreshHeap, err |-> err, name |-> << >>, slot |-> EmptySlot]

\* Instance::new from Builtins::replace on: Inner::new calls the export
\* builtins
InstanceBuiltins(module) ==
  IF Lacks(module.exports, "builtins") THEN NoInstance("Wasmi")
  ELSE InstanceReplace(builtins(FreshHeap, module.table))

\* Instance::new: the instance is created with an empty dispatcher slot,
\* then Builtins::replace fills the slot from the table of the guest
InstanceNew(module) ==
  IF Functions(module.exports).err # NoErr THEN NoInstance(Functions(module.exports).err)
  ELSE InstanceBuiltins(module)

\* the Policy of the instance inst with the initial data at d:
\* heap_ptr_get and heap_top_get give the base checkpoint
PolicyOf(inst, d, exports) ==
  [err |-> IF d.h.err # NoErr THEN d.h.err
           ELSE IF Lacks(exports, "opa_heap_ptr_get") \/ Lacks(exports, "opa_heap_top_get")
             THEN "Wasmi"
           ELSE NoErr,
   name |-> << >>, h |-> d.h, slot |-> inst.slot, data_addr |-> d.a]

\* Policy::from_wasm from the instance on: the initial data is an empty
\* object, encoded with opa_malloc
PolicyNew(inst, exports) ==
  IF inst.err # NoErr
    THEN [err |-> inst.err, name |-> inst.name, h |-> inst.h, slot |-> inst.slot, data_addr |-> 0]
  ELSE IF Lacks(exports, "opa_malloc")
    THEN [err |-> "Wasmi", name |-> << >>, h |-> inst.h, slot |-> inst.slot, data_addr |-> 0]
  ELSE PolicyOf(inst, to_instance(inst.h, VMap(<< >>)), exports)

\* Policy::from_wasm
from_wasm(module) == PolicyNew(InstanceNew(module), module.exports)

\* the record of a callback made during construction: what it returned and
\* whether the slot was populated when it came
EarlyCall(c, full) == << [n |-> 0, id |-> 0, ret |-> c.ret, out |-> c.out, full |-> full] >>

\* the callbacks made while Inner::new runs the export builtins, the
\* dispatcher slot being the one Instance::new created
EarlyCalls(module, slot) ==
  IF Functions(module.exports).err # NoErr \/ Lacks(module.exports, "builtins") \/ ~module.early
    THEN << >>
  ELSE EarlyCall(Builtin(slot, FreshHeap, 0, 0, << >>, 0), slot.full)

\* heap_ptr_set and heap_top_set of the guest
Rewind(m, ptr, top) == Heap(m, ptr, top)

\* set_data that encodes behind the data loaded before instead of rewinding
\* to the base checkpoint
set_data_append(p, d) == to_instance(Rewind(p.mem, p.data_heap_ptr, p.data_heap_top), d)

\* set_data that goes on from the heap pointers the call before left
set_data_norewind(p, d) == to_instance(Rewind(p.mem, p.heap_ptr, p.heap_top), d)

\* Policy::set_data on the policy p (a record of the fields of the policy,
\* of the memory and the heap pointers of its instance and of the exports of
\* its module); a policy has the exports from_wasm called
set_data(p, d) ==
  IF Lacks(p.exports, "opa_heap_ptr_set")
    THEN Ret(Fail(Heap(p.mem, p.heap_ptr, p.heap_top), "Wasmi"), 0)
  ELSE IF Lacks(p.exports, "opa_heap_top_set")
    THEN Ret(Fail(Heap(p.mem, p.base_heap_ptr, p.heap_top), "Wasmi"), 0)
  ELSE to_instance(Rewind(p.mem, p.base_heap_ptr, p.base_heap_top), d)

\* the steps of Policy::evaluate in the order of its statements
EvaluateSteps ==
  << "heap_ptr_set", "heap_top_set", "to_instance", "eval_ctx_new", "eval_ctx_set_input",
     "eval_ctx_set_data", "eval", "eval_ctx_get_result", "from_instance" >>

\* the first n steps have run, all but the last with the result Ok and the
\* last with the result Ok iff ok
Steps(n, ok) == [j \in 1..n |-> [op |-> EvaluateSteps[j], ok |-> j < n \/ ok]]

Done(h, res, ev, h0, steps) ==
  [h |-> h, res |-> res, calls |-> ev.calls, abort |-> ev.abort,
   start |-> << h0.heap_ptr, h0.heap_top >>, steps |-> steps]

NotRun == Ran(FreshHeap, << >>, FALSE, FALSE)

\* Policy::evaluate, the end: the panic of a built-in unwinds, a trap of
\* eval is an error, else the result is decoded
EvaluateResult(p, h0, ctx, ev) ==
  IF ev.panic THEN Done(ev.h, VPanic("builtin"), ev, h0, Steps(7, FALSE))
  ELSE IF ev.h.err # NoErr THEN Done(ev.h, VErr("Trap", 0), ev, h0, Steps(7, FALSE))
  ELSE IF Lacks(p.exports, "opa_eval_ctx_get_result")
    THEN Done(ev.h, VErr("Wasmi", 0), ev, h0, Steps(7, TRUE))
  ELSE Done(ev.h, from_instance(ev.h.mem, eval_ctx_get_result(ev.h.mem, ctx.a)), ev, h0,
            Steps(9, TRUE))

\* Policy::evaluate from the context with input and data set on: run eval
EvaluateEval(p, now, h0, ctx, h) ==
  IF Lacks(p.exports, "eval") THEN Done(h, VErr("Wasmi", 0), NotRun, h0, Steps(6, TRUE))
  ELSE EvaluateResult(p, h0, ctx, eval(h, p.slot, ctx.a, now))

\* Policy::evaluate from the context on: set input and data, run eval
EvaluateCtx(p, now, h0, inp, ctx) ==
  IF ctx.h.err # NoErr THEN Done(ctx.h, VErr("Trap", 0), NotRun, h0, Steps(4, FALSE))
  ELSE IF Lacks(p.exports, "opa_eval_ctx_set_input")
    THEN Done(ctx.h, VErr("Wasmi", 0), NotRun, h0, Steps(4, TRUE))
  ELSE IF Lacks(p.exports, "opa_eval_ctx_set_data")
    THEN Done(eval_ctx_set_input(ctx.h, ctx.a, inp.a), VErr("Wasmi", 0), NotRun, h0,
              Steps(5, TRUE))
  ELSE EvaluateEval(p, now, h0, ctx,
         eval_ctx_set_data(eval_ctx_set_input(ctx.h, ctx.a, inp.a), ctx.a, p.data_addr))

\* Policy::evaluate that goes on behind an input that was not encoded
EvaluateInputUnchecked(p, now, h0, inp) ==
  [EvaluateCtx(p, now, h0, inp, eval_ctx_new([inp.h EXCEPT !.err = NoErr]))
     EXCEPT !.steps[3].ok = inp.h.err = NoErr]
\* Policy::evaluate from the encoded input on
EvaluateInput(p, now, h0, inp) ==
  IF inp.h.err # NoErr THEN Done(inp.h, VErr(inp.h.err, 0), NotRun, h0, Steps(3, FALSE))
  ELSE IF Lacks(p.exports, "opa_eval_ctx_new")
    THEN Done(inp.h, VErr("Wasmi", 0), NotRun, h0, Steps(3, TRUE))
  ELSE EvaluateCtx(p, now, h0, inp, eval_ctx_new(inp.h))

\* Policy::evaluate from the heap h0 it starts on
EvaluateFrom(p, input, now, h0) == EvaluateInput(p, now, h0, to_instance(h0, input))

\* evaluate that goes on from the heap pointers the call before left
evaluate_norewind(p, input, now) ==
  EvaluateFrom(p, input, now, Rewind(p.mem, p.heap_ptr, p.heap_top))

\* evaluate that rewinds to the base checkpoint
evaluate_base(p, input, now) ==
  EvaluateFrom(p, input, now, Rewind(p.mem, p.base_heap_ptr, p.base_heap_top))

\* Policy::evaluate on the policy p
evaluate(p, input, now) ==
  IF Lacks(p.exports, "opa_heap_ptr_set")
    THEN Done(Heap(p.mem, p.heap_ptr, p.heap_top), VErr("Wasmi", 0), NotRun,
              Heap(p.mem, p.heap_ptr, p.heap_top), << >>)
  ELSE IF Lacks(p.exports, "opa_heap_top_set")
    THEN Done(Heap(p.mem, p.data_heap_ptr, p.heap_top), VErr("Wasmi", 0), NotRun,
              Heap(p.mem, p.data_heap_ptr, p.heap_top), Steps(1, TRUE))
  ELSE EvaluateFrom(p, input, now, Rewind(p.mem, p.data_heap_ptr, p.data_heap_top))

(***************************************************************************)
(* Ownership.  The allocations behind a reference count, and the strong    *)
(* references to them: by names the holder ("Policy" or an allocation),    *)
(* field the path of the field that holds the reference, to the            *)
(* allocation it keeps alive.                                              *)
(***************************************************************************)
Allocations == { "MemoryInstance", "ModuleInstance", "FunctionsImpl", "RefCell<Option<Inner>>" }

Ref(by, field, to) == [by |-> by, field |-> field, to |-> to]

\* struct HostExternals { memory: Memory, builtins: Builtins }
HostExternalsRefs(by, path) ==
  { Ref(by, Append(path, "memory"), "MemoryInstance"),
    Ref(by, Append(path, "builtins"), "RefCell<Option<Inner>>") }

\* struct Instance { memory: Memory, functions: Functions, externals }
InstanceRefs(by, path) ==
  { Ref(by, Append(path, "memory"), "MemoryInstance"),
    Ref(by, Append(path, "functions"), "FunctionsImpl") }
    \cup HostExternalsRefs(by, Append(path, "externals"))

\* struct FunctionsImpl { module_ref, externals }
FunctionsImplRefs ==
  { Ref("FunctionsImpl", << "module_ref" >>, "ModuleInstance") }
    \cup HostExternalsRefs("FunctionsImpl", << "externals" >>)

\* the module instance keeps the memory that resolve_memory gave it
ModuleInstanceRefs == { Ref("ModuleInstance", << "memory" >>, "MemoryInstance") }

\* struct Inner { instance: Instance, lookup }, the content of the slot
\* behind Builtins::replace
InnerRefs == InstanceRefs("RefCell<Option<Inner>>", << "instance" >>)

\* struct Policy { instance: Instance, .. }
PolicyRefs == InstanceRefs("Policy", << "instance" >>)

\* the references the allocations of an instance hold at the end of
\* Instance::new; full: Builtins::replace has stored the Inner
InstanceGraph(full) ==
  FunctionsImplRefs \cup ModuleInstanceRefs \cup (IF full THEN InnerRefs ELSE {})

RECURSIVE Release(_)
\* Drop for Rc and Arc: an allocation without a strong reference to it is
\* freed, and the references it holds go with it
Release(refs) ==
  LET freed == { a \in Allocations : \A r \in refs : r.to # a }
      rest == { r \in refs : r.by \notin freed }
  IN  IF rest = refs THEN refs ELSE Release(rest)

(***************************************************************************)
(* The modules, data documents and inputs the model runs on.               *)
(***************************************************************************)
Str(name) == VStr(Utf8(name))

\* a string that does not fit into linear memory
Big == VStr([j \in 1..MemSize |-> 120])

\* a string of 60 bytes
Long == VStr([j \in 1..60 |-> 120])

\* tables of required built-ins: a well-formed one, one that gives two names
\* the same id, three that name a built-in the host does not know (the
\* second behind an entry whose id is no integer, the third in an entry
\* whose id is no integer), and a table that is no object
TableGood ==
  Object(<< VEntry(Str("count"), VInt(1)), VEntry(Str("div"), VInt(2)),
            VEntry(Str("object.get"), VInt(3)), VEntry(Str("time.now_ns"), VInt(0)) >>)
TableDup == Object(<< VEntry(Str("count"), VInt(1)), VEntry(Str("div"), VInt(1)) >>)
TableUnknown == Object(<< VEntry(Str("count"), VInt(1)), VEntry(Str("nope"), VInt(2)) >>)
TableBadId == Object(<< VEntry(Str("count"), Str("a")), VEntry(Str("nope"), VInt(2)) >>)
TableUnknownFirst == Object(<< VEntry(Str("a"), VNull), VEntry(Str("count"), VInt(1)) >>)
TableNoObject == Array(<< Str("count") >>)

\* data documents; the last one does not fit into linear memory
Doc1 == Object(<< VEntry(Str("a"), VInt(1)) >>)
Doc2 == Object(<< VEntry(Str("a"), VInt(2)), VEntry(Str("k"), Long) >>)
DocBig == Object(<< VEntry(Str("k"), Big) >>)

\* inputs: echoed ones, the ones the policy traps, aborts or answers badly
\* on, calls of built-ins (first element: the id), and one that does not fit
InEcho == Str("a")
InTrap == VNull
InAbort == VBool(TRUE)
InNoNode == VBool(FALSE)
InCount == Array(<< VInt(1), Str("k") >>)
InCountInt == Array(<< VInt(1), VInt(5) >>)
InDiv == Array(<< VInt(2), VInt(7), VInt(0 - 2) >>)
InDivZero == Array(<< VInt(2), VInt(1), VInt(0) >>)
InDivOne == Array(<< VInt(2), Str("a") >>)
InNow == Array(<< VInt(0) >>)
InNoId == Array(<< VInt(9), VNull >>)
InNoIdNow == Array(<< VInt(9) >>)
InGet == Array(<< VInt(3), Doc1, Str("a"), VNull >>)
InFour == Array(<< VInt(1), VNull, VNull, VNull, VNull >>)
InNoArg == Array(<< VInt(0 - 1), VNull >>)
InBig == Array(<< VNull, Big >>)

\* a run: the module the policy is made from, the documents the host
\* loads and the inputs it evaluates
Run(table, docs, inputs) ==
  [table |-> table, exports |-> Required, early |-> FALSE, docs |-> docs, inputs |-> inputs]

\* the run whose module lacks the export name
Without(run, name) == [run EXCEPT !.exports = @ \ { name }]

\* the run with a module whose export builtins calls opa_builtin0 with the
\* id 0 before it returns its table
Early(run) == [run EXCEPT !.early = TRUE]

Runs ==
  { Run(TableGood, { Doc1, Doc2 }, { InEcho, InTrap }),
    Run(TableGood, { Doc1, DocBig }, { InEcho, InBig }),
    Run(TableGood, { Doc1 }, { InAbort, InNoNode }),
    Run(TableGood, { Doc1 }, { InCount, InDivZero }),
    Run(TableGood, { Doc1 }, { InNow, InDiv }),
    Run(TableGood, { Doc1 }, { InDivOne, InNoId }),
    Run(TableGood, { Doc1 }, { InCountInt, InNoIdNow }),
    Run(TableGood, { Doc1 }, { InGet, InNoArg }),
    Run(TableGood, { Doc1 }, { InFour }),
    Run(TableDup, { Doc1 }, { InCount }),
    Run(TableUnknown, { Doc1 }, { InEcho }),
    Run(TableBadId, { Doc1 }, { InEcho }),
    Run(TableUnknownFirst, { Doc1 }, { InEcho }),
    Run(TableNoObject, { Doc1 }, { InEcho }) }
  \cup { Without(Run(TableGood, { Doc1 }, { InEcho }), name) : name \in Required }
  \cup { Early(Run(TableGood, { Doc1 }, { InNow })) }

\* the clock readings an evaluation of the input i is run with: the clock
\* is read by time.now_ns only, which a call without arguments reaches
Clock(i) == IF i.k = "seq" /\ Len(i.xs) = 1 THEN 0..MaxClock ELSE {0}

(***************************************************************************)
(* The state.                                                              *)
(***************************************************************************)
VARIABLES
  phase,          \* "new", "ready" (a Policy exists), "failed" (construction
                  \* failed), "panicked" (a panic unwound out of evaluate),
                  \* "dropped" (the Policy was dropped),
                  \* "codec" (the codec is exercised on its own)
  module,         \* the wasm module the policy is made from
  docs,           \* the documents the host loads
  inputs,         \* the inputs the host evaluates
  mem,            \* linear memory of the instance
  heap_ptr,       \* heap pointer of the guest
  heap_top,       \* heap high-water mark of the guest
  slot,           \* the slot of the dispatcher
  data_addr,      \* Policy: root of the loaded data
  base_heap_ptr,  \* Policy: base checkpoint
  base_heap_top,
  data_heap_ptr,  \* Policy: data checkpoint
  data_heap_top,
  data,           \* the document that was loaded last
  last,           \* the call that was made last and what was observed of it
  mark,           \* progress of set_data(d1) evaluate(i) set_data(d2)
                  \* evaluate(i) set_data(d1) evaluate(i)
  val,            \* the value the codec is exercised on
  held            \* the strong references (Rc, Arc) that exist

vars ==
  << phase, module, docs, inputs, mem, heap_ptr, heap_top, slot, data_addr, base_heap_ptr,
     base_heap_top, data_heap_ptr, data_heap_top, data, last, mark, val, held >>

\* the policy and its instance as one record
Self ==
  [mem |-> mem, heap_ptr |-> heap_ptr, heap_top |-> heap_top, slot |-> slot,
   data_addr |-> data_addr, base_heap_ptr |-> base_heap_ptr,
   base_heap_top |-> base_heap_top, data_heap_ptr |-> data_heap_ptr,
   data_heap_top |-> data_heap_top, exports |-> module.exports]

\* the fields of the policy that outlive a call
Fields == << data_addr, base_heap_ptr, base_heap_top, data_heap_ptr, data_heap_top >>

\* what is observed of a call: the operation op, its argument arg and its
\* result res; the heap pointers before the call, at the start of its first
\* allocation and after it; the lowest address the host wrote (wlo); the
\* callbacks made (calls) and whether the guest called opa_abort; the fields
\* of the policy before the call; whether memory below the data checkpoint
\* kept its content (kept); for a failed evaluate the policy as it was
\* before the call (otherwise); for an evaluate behind a failed one the
\* result its input has on the policy as it was before the failed one
\* (expect); for a set_data behind an evaluate the input and the result of
\* that evaluate, and for an evaluate of the same input behind a failed
\* set_data the same (behind);
\* for an evaluate behind an evaluate of the same input the result and the
\* heap pointers of that one (prev)
Observed(op, arg, res) ==
  [op |-> op, arg |-> arg, res |-> res, before |-> << heap_ptr, heap_top >>,
   start |-> << heap_ptr, heap_top >>, after |-> << heap_ptr, heap_top >>,
   wlo |-> MemSize, calls |-> << >>, abort |-> FALSE, steps |-> << >>, fields |-> Fields,
   kept |-> TRUE, otherwise |-> << >>, expect |-> << >>, prev |-> << >>,
   behind |-> << >>]

NoMark == [stage |-> 0, d |-> VNull, d2 |-> VNull, i |-> VNull, r |-> VNull]

Init ==
  /\ phase = "new"
  /\ \E run \in Runs :
       /\ module = [table |-> run.table, exports |-> run.exports, early |-> run.early]
       /\ docs = run.docs
       /\ inputs = run.inputs
  /\ mem = FreshHeap.mem
  /\ heap_ptr = FreshHeap.heap_ptr
  /\ heap_top = FreshHeap.heap_top
  /\ slot = EmptySlot
  /\ data_addr = 0
  /\ base_heap_ptr = 0
  /\ base_heap_top = 0
  /\ data_heap_ptr = 0
  /\ data_heap_top = 0
  /\ data = VNull
  /\ last = Observed("none", VNull, VNull)
  /\ mark = NoMark
  /\ val = VNull
  /\ held = {}

\* Policy::from_wasm(module)
FromWasm ==
  /\ phase = "new"
  /\ \E r \in { from_wasm(module) } :
         /\ phase' = IF r.err = NoErr THEN "ready" ELSE "failed"
         /\ mem' = r.h.mem
         /\ heap_ptr' = r.h.heap_ptr
         /\ heap_top' = r.h.heap_top
         /\ slot' = r.slot
         /\ data_addr' = r.data_addr
         /\ base_heap_ptr' = IF r.err = NoErr THEN r.h.heap_ptr ELSE 0
         /\ base_heap_top' = IF r.err = NoErr THEN r.h.heap_top ELSE 0
         /\ data_heap_ptr' = IF r.err = NoErr THEN r.h.heap_ptr ELSE 0
         /\ data_heap_top' = IF r.err = NoErr THEN r.h.heap_top ELSE 0
         /\ data' = IF r.err = NoErr THEN VMap(<< >>) ELSE data
         /\ last' = [Observed("from_wasm", module.table,
                              IF r.err = NoErr THEN VNull
                              ELSE Mk("err", FALSE, 0, r.name, << >>, r.err))
                       EXCEPT !.after = << r.h.heap_ptr, r.h.heap_top >>,
                              !.calls = EarlyCalls(module, slot)]
         /\ held' = IF r.err = NoErr THEN PolicyRefs \cup InstanceGraph(r.slot.full)
                    ELSE Release(InstanceGraph(r.slot.full))
  /\ UNCHANGED << module, docs, inputs, mark, val >>

\* Policy::set_data(d)
SetData(d) ==
  /\ phase = "ready"
  /\ \E r \in { set_data(Self, d) } :
     LET ok == r.h.err = NoErr
     IN  /\ mem' = r.h.mem
         /\ heap_ptr' = r.h.heap_ptr
         /\ heap_top' = r.h.heap_top
         /\ data_addr' = IF ok THEN r.a ELSE data_addr
         /\ data_heap_ptr' = IF ok THEN r.h.heap_ptr ELSE data_heap_ptr
         /\ data_heap_top' = IF ok THEN r.h.heap_top ELSE data_heap_top
         /\ data' = IF ok THEN d ELSE data
         /\ last' = [Observed("set_data", d, IF ok THEN VNull ELSE VErr(r.h.err, 0))
                       EXCEPT !.start = << base_heap_ptr, base_heap_top >>,
                              !.after = << r.h.heap_ptr, r.h.heap_top >>,
                              !.wlo = r.h.wlo,
                              !.kept = \A a \in 0..(data_heap_ptr - 1) : r.h.mem[a] = mem[a],
                              !.behind = IF last.op = "evaluate"
                                           THEN << [arg |-> last.arg, res |-> last.res] >>
                                           ELSE << >>]
         /\ mark' = IF ok /\ mark.stage \in {1, 5}
                      THEN [stage |-> 2, d |-> mark.d, d2 |-> d, i |-> mark.i, r |-> mark.r]
                    ELSE IF ok /\ mark.stage = 3 /\ d = mark.d
                      THEN [mark EXCEPT !.stage = 4]
                    ELSE NoMark
  /\ UNCHANGED << phase, module, docs, inputs, slot, base_heap_ptr, base_heap_top, val, held >>

\* Policy::evaluate(i), the wall clock reading now
Evaluate(i, now) ==
  /\ phase = "ready"
  /\ \E r \in { evaluate(Self, i, now) } :
         /\ phase' = IF IsPanic(r.res) THEN "panicked" ELSE phase
         /\ mem' = r.h.mem
         /\ heap_ptr' = r.h.heap_ptr
         /\ heap_top' = r.h.heap_top
         /\ last' = [Observed("evaluate", i, r.res)
                       EXCEPT !.start = r.start,
                              !.after = << r.h.heap_ptr, r.h.heap_top >>,
                              !.wlo = r.h.wlo,
                              !.calls = r.calls,
                              !.abort = r.abort,
                              !.steps = r.steps,
                              !.kept = \A a \in 0..(data_heap_ptr - 1) : r.h.mem[a] = mem[a],
                              !.otherwise = IF IsErr(r.res) THEN << Self >> ELSE << >>,
                              !.expect = IF last.op = "evaluate" /\ IsErr(last.res)
                                           THEN << evaluate(last.otherwise[1], i, now).res >>
                                           ELSE << >>,
                              !.behind = IF /\ last.op = "set_data"
                                            /\ IsErr(last.res)
                                            /\ last.behind # << >>
                                            /\ last.behind[1].arg = i
                                           THEN last.behind
                                           ELSE << >>,
                              !.prev = IF last.op = "evaluate" /\ last.arg = i
                                         THEN << [res |-> last.res, before |-> last.before,
                                                  after |-> last.after] >>
                                         ELSE << >>]
         /\ mark' = IF mark.stage = 2 /\ i = mark.i THEN [mark EXCEPT !.stage = 3]
                    ELSE IF mark.stage = 4 /\ i = mark.i THEN [mark EXCEPT !.stage = 5]
                    ELSE IF last.op = "set_data" /\ IsOk(last.res)
                      THEN [stage |-> 1, d |-> data, d2 |-> VNull, i |-> i, r |-> r.res]
                    ELSE NoMark
  /\ UNCHANGED << module, docs, inputs, slot, data_addr, base_heap_ptr, base_heap_top, data_heap_ptr,
                  data_heap_top, data, val, held >>

\* drop(policy): the references the Policy holds go, and with them every
\* allocation that no reference is left to
Drop ==
  /\ phase = "ready"
  /\ phase' = "dropped"
  /\ held' = Release({ r \in held : r.by # "Policy" })
  /\ UNCHANGED << module, docs, inputs, mem, heap_ptr, heap_top, slot, data_addr,
                  base_heap_ptr, base_heap_top, data_heap_ptr, data_heap_top, data, last,
                  mark, val >>

Next ==
  \/ FromWasm
  \/ \E d \in docs : SetData(d)
  \/ \E i \in inputs : \E now \in Clock(i) : Evaluate(i, now)
  \/ Drop

Spec == Init /\ [][Next]_vars

(***************************************************************************)
(* The codec on its own: a value is built up from scalars, then encoded    *)
(* into the heap of a fresh instance and decoded from the root address.    *)
(***************************************************************************)
\* the scalars: null, booleans, integers up to the ends of the range the
\* model holds, lexical numbers, strings (empty, ASCII, two-byte UTF-8)
Scalars ==
  { VNull, VBool(TRUE), VBool(FALSE), VInt(0), VInt(0 - 1), VInt(2147483647),
    VInt((0 - 2147483647) - 1), VInt(256), VRef(<< 49, 46, 53 >>), VRef(<< 49 >>),
    VStr(<< >>), Str("a"), VStr(<< 195, 169 >>) }

\* the values put next to the value under construction
Fillers == { VInt(1), Str("a"), VNull }

RECURSIVE Depth(_)
RECURSIVE MaxOf(_, _)
MaxOf(xs, n) ==
  IF n > Len(xs) THEN 0
  ELSE LET a == Depth(xs[n])
           b == MaxOf(xs, n + 1)
       IN  IF a > b THEN a ELSE b

\* nesting depth of a value
Depth(v) ==
  IF v.k \in {"seq", "map", "set"} THEN 1 + MaxOf(v.xs, 1)
  ELSE IF v.k = "entry" THEN Depth(v.xs[2])
  ELSE 0

InitCodec ==
  /\ phase = "codec"
  /\ module = [table |-> TableGood, exports |-> Required, early |-> FALSE]
  /\ docs = {}
  /\ inputs = {}
  /\ mem = FreshHeap.mem
  /\ heap_ptr = FreshHeap.heap_ptr
  /\ heap_top = FreshHeap.heap_top
  /\ slot = EmptySlot
  /\ data_addr = 0
  /\ base_heap_ptr = 0
  /\ base_heap_top = 0
  /\ data_heap_ptr = 0
  /\ data_heap_top = 0
  /\ data = VNull
  /\ last = Observed("none", VNull, VNull)
  /\ mark = NoMark
  /\ val \in Scalars
  /\ held = {}

CodecFrame ==
  UNCHANGED << phase, module, docs, inputs, slot, data_addr, base_heap_ptr, base_heap_top,
               data_heap_ptr, data_heap_top, data, mark, held >>

\* the value becomes an element of an array, a member of a set or the value
\* of an entry of an object
Grow ==
  /\ phase = "codec"
  /\ last.op = "none"
  /\ Depth(val) < MaxNest
  /\ \E f \in Fillers :
       val' \in { Array(<< val >>), Array(<< f, val >>), Array(<< >>),
                  Set(<< val, f >>), Set(<< >>),
                  Object(<< VEntry(Str("k"), val), VEntry(Str("a"), f) >>),
                  Object(<< >>) }
  /\ UNCHANGED << mem, heap_ptr, heap_top, last >>
  /\ CodecFrame

\* to_instance(val), then from_instance of the address it returned
RoundTrip ==
  /\ phase = "codec"
  /\ last.op = "none"
  /\ \E e \in { to_instance(FreshHeap, val) } :
       /\ mem' = e.h.mem
       /\ heap_ptr' = e.h.heap_ptr
       /\ heap_top' = e.h.heap_top
       /\ last' = [Observed("roundtrip", val,
                            IF e.h.err = NoErr THEN from_instance(e.h.mem, e.a)
                            ELSE VErr(e.h.err, 0))
                     EXCEPT !.after = << e.h.heap_ptr, e.h.heap_top >>,
                            !.wlo = e.h.wlo]
  /\ UNCHANGED val
  /\ CodecFrame

NextCodec == Grow \/ RoundTrip

SpecCodec == InitCodec /\ [][NextCodec]_vars

(***************************************************************************)
(* The built-in functions on their own: one registered function is applied *)
(* to operands drawn from bounded sets.                                    *)
(***************************************************************************)
\* i64 at and next to the ends of the ranges of the integer types: 0, -1,
\* 2^n - 1, 2^n, -2^n and -2^n - 1 for n = 7, 8, 15, 16, 31, 32, 63
Edge(n, neg) == [j \in 1..8 |-> IF j = n THEN (IF neg THEN 128 ELSE 127)
                                 ELSE IF j < n THEN (IF neg THEN 0 ELSE 255)
                                 ELSE IF neg THEN 255 ELSE 0]
Above(n) == [j \in 1..8 |-> IF j = n THEN 128 ELSE 0]
Below(n) == [j \in 1..8 |-> IF j = n THEN 127 ELSE 255]
Full(n) == [j \in 1..8 |-> IF j <= n THEN 255 ELSE 0]
Over(n) == [j \in 1..8 |-> IF j = n + 1 THEN 1 ELSE 0]

\* i64 of full width: 0, 1, 2, 3, -1, -2^31, 2^31, 2^32, the largest and
\* the smallest
LongOperands ==
  { VLong(b) : b \in { Pad(8), Over(0), LE64(2), LE64(3), Full(8), Edge(4, TRUE), Above(4),
                       Over(4), Edge(8, FALSE), Edge(8, TRUE) } }

\* numbers: integers, doubles, and number references that read as an
\* integer, as a double, and as neither
Numbers ==
  { VInt(0), VInt(1), VInt(2), VInt(0 - 4),
    VFloat(Fin(FALSE, 0)), VFloat(Fin(FALSE, 8)), VFloat(Fin(TRUE, 32)),
    VRef(<< 56 >>), VRef(<< 48, 46, 53 >>), VRef(<< 120 >>) }

Operands ==
  Numbers \cup { VNull, Str("a"), Set(<< VInt(1), VInt(2) >>), Set(<< VInt(2) >>),
                 Array(<< VInt(1) >>) }

Arithmetic == { "plus", "minus", "mul", "div", "rem" }

MaxArray == 3
MaxBelow == 2
MaxIndex == 5

\* the arrays << 10 >>, << 10, 11 >>, ... up to MaxArray elements
Arrays == { Array([j \in 1..n |-> VInt(9 + j)]) : n \in 0..MaxArray }

Indexes == { VInt(j) : j \in (0 - MaxBelow)..MaxIndex } \cup { VRef(<< 50 >>) }

\* largest number of elements of the collections that are folded
MaxFold == 3

\* the arrays of up to MaxFold elements of S, and the sets of them
Collections(S) ==
  UNION { { Array(xs) : xs \in [1..n -> S] } \cup { Set(xs) : xs \in [1..n -> S] } :
          n \in 0..MaxFold }

\* elements of the collections all and any are called with, and of those
\* min and max are called with
Flags == { VBool(TRUE), VBool(FALSE), VInt(1) }
Ints == { VInt(0 - 4), VInt(0), VInt(2), VInt(3) }

\* nanoseconds since the epoch: around the epoch and around the seconds
\* next to it
Nanos ==
  { VInt(0), VInt(0 - 1), VInt(1), VInt(NanosPerSec - 1), VInt(NanosPerSec),
    VInt(0 - NanosPerSec), VInt((0 - NanosPerSec) - 1), VInt(2 * NanosPerSec + 1),
    VRef(<< 55 >>) }

\* the arguments time.weekday is called with
Instants ==
  Nanos \cup { Array(<< ns, tz >>) : ns \in Nanos, tz \in { VStr(UTC), VStr(<< >>), Str("a") } }
    \cup { VNull, Array(<< VInt(0) >>), Array(<< Str("a"), VStr(UTC) >>),
           Array(<< VInt(0), VNull >>) }

Request(n, name, args) == [n |-> n, name |-> name, args |-> args]

Requests ==
  { Request(2, name, << a, b >>) : name \in Arithmetic, a \in Operands, b \in Operands }
  \cup { Request(3, "array.slice", << a, start, end >>) :
           a \in Arrays \cup { VNull }, start \in Indexes, end \in Indexes }
  \cup { Request(2, name, << a, b >>) :
           name \in { "plus", "minus", "mul" }, a \in LongOperands, b \in LongOperands }
  \cup { Request(1, "abs", << a >>) : a \in LongOperands }
  \cup { Request(1, "time.weekday", << x >>) : x \in Instants }
  \cup { Request(1, name, << xs >>) : name \in { "all", "any" }, xs \in Collections(Flags) }
  \cup { Request(1, name, << xs >>) :
           name \in { "min", "max" }, xs \in Collections(Ints) \ { Array(<< >>), Set(<< >>) } }

InitBuiltins ==
  /\ phase = "builtin"
  /\ module = [table |-> TableGood, exports |-> Required, early |-> FALSE]
  /\ docs = {}
  /\ inputs = {}
  /\ mem = FreshHeap.mem
  /\ heap_ptr = FreshHeap.heap_ptr
  /\ heap_top = FreshHeap.heap_top
  /\ slot = EmptySlot
  /\ data_addr = 0
  /\ base_heap_ptr = 0
  /\ base_heap_top = 0
  /\ data_heap_ptr = 0
  /\ data_heap_top = 0
  /\ data = VNull
  /\ last = Observed("none", VNull, VNull)
  /\ mark = NoMark
  /\ val \in Requests
  /\ held = {}

\* the function registered under val.name, called with val.args
CallBuiltin ==
  /\ phase = "builtin"
  /\ val.name \in { "plus", "minus", "mul", "div", "rem", "array.slice", "abs", "min", "max",
                     "all", "any", "time.weekday" }
  /\ Utf8(val.name) \in BuiltinMap(val.n)
  /\ phase' = "returned"
  /\ \E r \in Outcomes(Apply(val.n, Utf8(val.name), val.args, 0)) :
       last' = Observed(val.name, val.args, r)
  /\ UNCHANGED << module, docs, inputs, mem, heap_ptr, heap_top, slot, data_addr,
                  base_heap_ptr, base_heap_top, data_heap_ptr, data_heap_top, data,
                  mark, val, held >>

NextBuiltins == CallBuiltin

SpecBuiltins == InitBuiltins /\ [][NextBuiltins]_vars

(***************************************************************************)
(* Decoding into host types: a value is encoded into the heap of a fresh   *)
(* instance, then the root address is decoded as a type.                   *)
(***************************************************************************)
TI64 == Ty("i64", << >>)
TUnit == Ty("unit", << >>)

\* the types with an Option in them
OptionTypes ==
  { Option(TI64), Option(TUnit), Option(Option(TI64)), Option(Option(TUnit)),
    Vec(Option(TI64)), Vec(Option(TUnit)), Option(Vec(TI64)), Vec(Option(Option(TI64))) }

RECURSIVE Inhabitants(_)
\* values of the type t: two integers, the unit value, None and Some of
\* every payload, vectors of up to two elements
Inhabitants(t) ==
  CASE t.k = "i64" -> { VInt(56), VInt(0 - 1) }
    [] t.k = "unit" -> { VUnit }
    [] t.k = "option" -> { VNone } \cup { VSome(x) : x \in Inhabitants(t.of[1]) }
    [] t.k = "seq" ->
         { VArray(<< >>) } \cup { VArray(<< x >>) : x \in Inhabitants(t.of[1]) }
           \cup { VArray(<< x, y >>) : x \in Inhabitants(t.of[1]), y \in Inhabitants(t.of[1]) }

\* the types a node is requested as
RequestTypes ==
  { Ty(k, << >>) : k \in { "bool", "i64", "f64", "str", "unit", "map", "enum", "set", "ref" } }
  \cup { Vec(Ty("any", << >>)) }

\* the values whose nodes are requested: one per tag and number
\* representation, a string and objects that name a variant
Nodes ==
  { VNull, VBool(TRUE), VInt(7), VFloat(Fin(FALSE, 8)), VRef(<< 49 >>), Str("a"),
    VStr(UnitName), Array(<< VInt(1) >>), Array(<< >>),
    Object(<< VEntry(Str("k"), VInt(1)) >>), Object(<< VEntry(VStr(UnitName), VNull) >>),
    Object(<< VEntry(VStr(NewTypeName), VInt(5)) >>), Object(<< >>),
    Set(<< VInt(1), VInt(2) >>), Set(<< >>) }

\* largest declared length of the sequences whose emitted elements are
\* counted against it
MaxSeq == 2

\* the first n of the integers 1, 2, ...
Emitted(n) == [j \in 1..n |-> VInt(j)]

\* sequences that declare the length len and emit n elements
Seqs == { VSeq(len, Emitted(n)) : len \in 0..MaxSeq, n \in 0..(MaxSeq + 1) }

Longs ==
  { VLong(Pad(8)), VLong(Full(8)) }
  \cup { VLong(Edge(n, neg)) : n \in { 1, 2, 4, 8 }, neg \in BOOLEAN }
  \cup { VLong(b) : b \in { Above(1), Above(2), Above(4), Below(1), Below(2), Below(4) } }
  \cup { VLong(b) : b \in { Full(1), Full(2), Full(4), Over(1), Over(2), Over(4) } }

\* largest number of entries of the maps and sets whose chains are walked
MaxChain == 3

\* the n entries emitted for a map, the keys in descending order
Entries(n) == [j \in 1..n |-> VEntry(VStr(<< 97 + (n - j) >>), VInt(j))]

\* maps and sets as they are emitted: n entries, the integers
\* 1..n, and a set emitted out of order and with a repetition
Chains ==
  { VMap(Entries(n)) : n \in 0..MaxChain }
  \cup { VSet(Emitted(n)) : n \in 0..MaxChain }
  \cup { VSet(<< VInt(2), VInt(1), VInt(2) >>) }

Typed(t, v) == [ty |-> t, v |-> v, addr |-> 0]

\* the error a failed encoding left in the heap h
EncodeError(h) == Mk("err", FALSE, 0, h.arg, << >>, h.err)

InitTyped ==
  /\ phase = "typed"
  /\ module = [table |-> TableGood, exports |-> Required, early |-> FALSE]
  /\ docs = {}
  /\ inputs = {}
  /\ mem = FreshHeap.mem
  /\ heap_ptr = FreshHeap.heap_ptr
  /\ heap_top = FreshHeap.heap_top
  /\ slot = EmptySlot
  /\ data_addr = 0
  /\ base_heap_ptr = 0
  /\ base_heap_top = 0
  /\ data_heap_ptr = 0
  /\ data_heap_top = 0
  /\ data = VNull
  /\ last = Observed("none", VNull, VNull)
  /\ mark = NoMark
  /\ val \in { Typed(t, v) : t \in RequestTypes, v \in Nodes }
            \cup UNION { { Typed(t, v) : v \in Inhabitants(t) } : t \in OptionTypes }
            \cup { Typed(Vec(Ty("any", << >>)), v) : v \in Seqs }
            \cup { Typed(Ty(k, << >>), v) : k \in IntTypes, v \in Longs }
            \cup { Typed(Ty("any", << >>), v) : v \in Chains }
  /\ held = {}

\* to_instance(val.v): val.addr becomes the address of the root node
ToInstance ==
  /\ phase = "typed"
  /\ \E e \in { to_instance(FreshHeap, val.v) } :
       /\ phase' = IF e.h.err = NoErr THEN "encoded" ELSE "failed"
       /\ mem' = e.h.mem
       /\ heap_ptr' = e.h.heap_ptr
       /\ heap_top' = e.h.heap_top
       /\ val' = [val EXCEPT !.addr = e.a]
       /\ last' = Observed("to_instance", val.v,
                           IF e.h.err = NoErr THEN VInt(e.a) ELSE EncodeError(e.h))
  /\ UNCHANGED << module, docs, inputs, slot, data_addr, base_heap_ptr, base_heap_top,
                  data_heap_ptr, data_heap_top, data, mark, held >>

\* from_instance::<T>(val.addr) for the type T = val.ty
FromInstanceAs ==
  /\ phase = "encoded"
  /\ phase' = "decoded"
  /\ last' = Observed("from_instance", val.v, from_instance_as(val.ty, mem, val.addr))
  /\ UNCHANGED << module, docs, inputs, mem, heap_ptr, heap_top, slot, data_addr,
                  base_heap_ptr, base_heap_top, data_heap_ptr, data_heap_top, data,
                  mark, val, held >>

NextTyped == ToInstance \/ FromInstanceAs

SpecTyped == InitTyped /\ [][NextTyped]_vars

(***************************************************************************)
(* The Policy over JSON strings (src/lib.rs).  Every method reaches the    *)
(* exports of the instance through inner: Arc<RefCell<Option<Inner>>>.     *)
(* The flag of the cell is 0 when it is unused, n > 0 under n shared       *)
(* borrows and -1 under a mutable one; a request the flag does not allow   *)
(* panics.  A guard gives its borrow back when the function that took it   *)
(* returns or is unwound.  A method is the sequence of its borrows, of its *)
(* calls that end in `?`, and of its calls of other methods.               *)
(***************************************************************************)
MaxCalls == 3
MaxCallbacks == 1

Unused == 0
Writing == 0 - 1

\* RefCell::borrow and RefCell::borrow_mut: what the flag allows
CanBorrow(kind, flag) == IF kind = "borrow_mut" THEN flag = Unused ELSE flag >= Unused

\* the flag behind a granted request
Taken(kind, flag) == IF kind = "borrow_mut" THEN Writing ELSE flag + 1

\* the flag behind the drop of a guard
Released(kind, flag) ==
  CASE kind = "borrow_mut" -> Unused
    [] kind = "borrow" -> flag - 1
    [] OTHER -> flag

Ins(op, what) == [op |-> op, what |-> what]

\* the statements of a method, in program order
Body(fn) ==
  CASE fn = "evaluate" ->
         << Ins("borrow", "inner"), Ins("try", "heap_ptr_set"), Ins("try", "heap_top_set"),
            Ins("call", "load_json"), Ins("try", "eval_ctx_new"),
            Ins("try", "eval_ctx_set_input"), Ins("try", "eval_ctx_set_data"),
            Ins("eval", "eval"), Ins("try", "eval_ctx_get_result"),
            Ins("call", "dump_json"), Ins("try", "serde_json::from_str"),
            Ins("ret", "Ok") >>
    [] fn = "set_data" ->
         << Ins("borrow_mut", "inner"), Ins("try", "heap_ptr_set"),
            Ins("try", "heap_top_set"), Ins("call", "load_json"),
            Ins("try", "heap_ptr_get"), Ins("try", "heap_top_get"), Ins("ret", "Ok") >>
    [] fn = "load_json" ->
         << Ins("borrow", "inner"), Ins("try", "malloc"), Ins("try", "json_parse"),
            Ins("ret", "Ok") >>
    [] fn = "dump_json" ->
         << Ins("borrow", "inner"), Ins("try", "json_dump"), Ins("try", "to_str"),
            Ins("ret", "Ok") >>
    [] fn = "builtin1" ->
         << Ins("call", "dump_json"), Ins("ret", "0") >>

\* an activation of a method: its position, the guard it holds, the
\* callbacks its eval has made
Frame(fn) == [fn |-> fn, pc |-> 1, guard |-> "none", callbacks |-> 0]

NoBorrowPanic == [in |-> "none", under |-> "none", requested |-> "none", flag |-> Unused]

JsonPolicy == [flag |-> Unused, stack |-> << >>, calls |-> 0, err |-> FALSE,
               results |-> << >>, panic |-> NoBorrowPanic]

Top == val.stack[Len(val.stack)]

Cur == Body(Top.fn)[Top.pc]

Running == phase = "json" /\ val.stack # << >>

\* the stack with its top frame changed
WithTop(stack, f) == [stack EXCEPT ![Len(stack)] = f]

Advance(stack) == WithTop(stack, [stack[Len(stack)] EXCEPT !.pc = @ + 1])

InitJson ==
  /\ phase = "json"
  /\ module = [table |-> TableGood, exports |-> Required, early |-> FALSE]
  /\ docs = {}
  /\ inputs = {}
  /\ mem = FreshHeap.mem
  /\ heap_ptr = FreshHeap.heap_ptr
  /\ heap_top = FreshHeap.heap_top
  /\ slot = EmptySlot
  /\ data_addr = 0
  /\ base_heap_ptr = 0
  /\ base_heap_top = 0
  /\ data_heap_ptr = 0
  /\ data_heap_top = 0
  /\ data = VNull
  /\ last = Observed("none", VNull, VNull)
  /\ mark = NoMark
  /\ val = JsonPolicy
  /\ held = {}

\* the host calls evaluate or set_data of the Policy from_wasm returned
JsonCall ==
  /\ phase = "json"
  /\ val.stack = << >>
  /\ val.calls < MaxCalls
  /\ \E fn \in { "evaluate", "set_data" } :
       val' = [val EXCEPT !.stack = << Frame(fn) >>, !.calls = @ + 1, !.err = FALSE]
  /\ UNCHANGED << phase, module, docs, inputs, mem, heap_ptr, heap_top, slot, data_addr,
                  base_heap_ptr, base_heap_top, data_heap_ptr, data_heap_top, data,
                  last, mark, held >>

\* self.inner.borrow() or self.inner.borrow_mut(): the guard lives to the
\* end of the method; a refused request panics and the unwinding drops
\* every guard
JsonBorrow ==
  /\ Running
  /\ ~ val.err
  /\ Cur.op \in { "borrow", "borrow_mut" }
  /\ IF CanBorrow(Cur.op, val.flag)
       THEN /\ val' = [val EXCEPT
                         !.flag = Taken(Cur.op, @),
                         !.stack = WithTop(@, [Top EXCEPT !.guard = Cur.op, !.pc = @ + 1])]
            /\ UNCHANGED phase
       ELSE /\ val' = [val EXCEPT
                         !.flag = Unused,
                         !.stack = << >>,
                         !.panic = [in |-> Top.fn, under |-> val.stack[1].fn,
                                    requested |-> Cur.op, flag |-> val.flag]]
            /\ phase' = "panicked"
  /\ UNCHANGED << module, docs, inputs, mem, heap_ptr, heap_top, slot, data_addr,
                  base_heap_ptr, base_heap_top, data_heap_ptr, data_heap_top, data,
                  last, mark, held >>

\* a call whose Result is followed by `?`: an export of the instance
\* (which may trap), json_parse (Err on address 0), or a conversion
JsonTry ==
  /\ Running
  /\ ~ val.err
  /\ Cur.op = "try"
  /\ \E ok \in BOOLEAN :
       val' = IF ok THEN [val EXCEPT !.stack = Advance(@)] ELSE [val EXCEPT !.err = TRUE]
  /\ UNCHANGED << phase, module, docs, inputs, mem, heap_ptr, heap_top, slot, data_addr,
                  base_heap_ptr, base_heap_top, data_heap_ptr, data_heap_top, data,
                  last, mark, held >>

\* self.load_json(..) or self.dump_json(..)
JsonInner ==
  /\ Running
  /\ ~ val.err
  /\ Cur.op = "call"
  /\ val' = [val EXCEPT !.stack = Append(@, Frame(Cur.what))]
  /\ UNCHANGED << phase, module, docs, inputs, mem, heap_ptr, heap_top, slot, data_addr,
                  base_heap_ptr, base_heap_top, data_heap_ptr, data_heap_top, data,
                  last, mark, held >>

\* inner.eval(ctx): the guest runs; it may call the import opa_builtin1,
\* whose closure calls builtin1(&pol1, ..), before it returns or traps
JsonEval ==
  /\ Running
  /\ ~ val.err
  /\ Cur.op = "eval"
  /\ \/ /\ Top.callbacks < MaxCallbacks
        /\ val' = [val EXCEPT
                     !.stack = Append(WithTop(@, [Top EXCEPT !.callbacks = @ + 1]),
                                      Frame("builtin1"))]
     \/ \E ok \in BOOLEAN :
          val' = IF ok THEN [val EXCEPT !.stack = Advance(@)] ELSE [val EXCEPT !.err = TRUE]
  /\ UNCHANGED << phase, module, docs, inputs, mem, heap_ptr, heap_top, slot, data_addr,
                  base_heap_ptr, base_heap_top, data_heap_ptr, data_heap_top, data,
                  last, mark, held >>

\* the caller behind the return of a method it called: `?` hands an Err
\* on, builtin1 prints it and goes on, eval goes on behind a callback
Resume(stack, err) ==
  LET caller == stack[Len(stack)]
      at == Body(caller.fn)[caller.pc]
  IN  CASE at.op = "eval" -> [stack |-> stack, err |-> FALSE]
        [] caller.fn = "builtin1" -> [stack |-> Advance(stack), err |-> FALSE]
        [] err -> [stack |-> stack, err |-> TRUE]
        [] OTHER -> [stack |-> Advance(stack), err |-> FALSE]

\* the method on top returns (Ok at its end, Err from a `?`): its guard is
\* dropped; the return of the bottom method is what the host observes
JsonReturn ==
  /\ Running
  /\ Cur.op = "ret" \/ val.err
  /\ LET rest == SubSeq(val.stack, 1, Len(val.stack) - 1)
         flag == Released(Top.guard, val.flag)
     IN  IF rest = << >>
           THEN val' = [val EXCEPT
                          !.flag = flag, !.stack = rest,
                          !.results = Append(@, [fn |-> Top.fn,
                                                 ok |-> ~ val.err])]
           ELSE val' = [val EXCEPT
                          !.flag = flag,
                          !.stack = Resume(rest, val.err).stack,
                          !.err = Resume(rest, val.err).err]
  /\ UNCHANGED << phase, module, docs, inputs, mem, heap_ptr, heap_top, slot, data_addr,
                  base_heap_ptr, base_heap_top, data_heap_ptr, data_heap_top, data,
                  last, mark, held >>

NextJson == JsonCall \/ JsonBorrow \/ JsonTry \/ JsonInner \/ JsonEval \/ JsonReturn

SpecJson == InitJson /\ [][NextJson]_vars

(***************************************************************************)
(* Properties.                                                             *)
(***************************************************************************)
\* C1: a value built from null, booleans, integers, lexical numbers,
\* strings, arrays, objects with string keys and sets, nested, that
\* to_instance encoded into the heap is decoded by from_instance from the
\* root address as an equal value (an encoding that ran out of memory
\* returned no address).
RoundTripIsIdentity ==
  (last.op = "roundtrip" /\ ~(IsErr(last.res) /\ last.res.e = "Alloc"))
    => last.res = last.arg

\* an object that holds a set and a second entry went through the codec
RoundTripIsIdentityWitness ==
  /\ last.op = "roundtrip"
  /\ last.arg.k = "map"
  /\ Len(last.arg.xs) = 2
  /\ \E j \in 1..2 : last.arg.xs[j].xs[2].k = "set" /\ Len(last.arg.xs[j].xs[2].xs) = 2
  /\ last.res = last.arg

\* C2: when set_data(d1) then evaluate(i) returned r1, and set_data(d2) and
\* evaluate(i) followed, then set_data(d1) and evaluate(i) return r1 again.
DataIsolation == mark.stage = 5 => last.res = mark.r

\* the six calls were made with two different documents and a result that
\* shows the data
DataIsolationWitness ==
  /\ mark.stage = 5
  /\ mark.d2 # mark.d
  /\ last.res.k = "seq"
  /\ last.res.xs[2] = mark.d
  /\ last.res = mark.r

\* C3 as stated: evaluate(v) twice returns equal results, and the heap
\* pointers before and after each of the two calls are the same four times.
CheckpointIdempotenceAsStated ==
  (last.op = "evaluate" /\ last.prev # << >>)
    => /\ last.res = last.prev[1].res
       /\ last.prev[1].before = last.prev[1].after
       /\ last.prev[1].after = last.before
       /\ last.before = last.after

\* C3: evaluate(v) twice returns equal results; each call starts from the
\* data checkpoint, and the heap pointers after the second call are those
\* after the first (which the second call found before it).
CheckpointIdempotence ==
  (last.op = "evaluate" /\ last.prev # << >>)
    => /\ last.res = last.prev[1].res
       /\ last.start = << data_heap_ptr, data_heap_top >>
       /\ last.prev[1].after = last.before
       /\ last.after = last.prev[1].after

\* an input was evaluated twice with a result, the first call having moved
\* the heap pointers
CheckpointIdempotenceWitness ==
  /\ last.op = "evaluate"
  /\ last.prev # << >>
  /\ IsOk(last.res)
  /\ last.prev[1].before # last.prev[1].after
  /\ last.prev[1].before = << data_heap_ptr, data_heap_top >>

\* C4: a failed evaluate leaves data_addr and the base and data checkpoints
\* as they were, and the evaluate(i) behind it starts from the data
\* checkpoint and returns what evaluate(i) returns on the policy as it was
\* before the failed call.
FailedEvaluateLeavesPolicy ==
  /\ (last.op = "evaluate" /\ IsErr(last.res)) => Fields = last.fields
  /\ (last.op = "evaluate" /\ last.expect # << >>)
       => /\ last.start = << data_heap_ptr, data_heap_top >>
          /\ last.res = last.expect[1]

\* an evaluate with a result was made behind a failed one, with data loaded
\* and the heap pointers away from the data checkpoint
FailedEvaluateLeavesPolicyWitness ==
  /\ last.op = "evaluate"
  /\ last.expect # << >>
  /\ IsOk(last.res)
  /\ last.before # << data_heap_ptr, data_heap_top >>
  /\ data_heap_ptr > base_heap_ptr

\* C5: every address the host writes during evaluate (the input, the
\* results of built-ins) is at or above the data checkpoint, and memory
\* below the data checkpoint, where the loaded data is, keeps its content.
HostWritesAboveData ==
  last.op = "evaluate" => (last.wlo >= data_heap_ptr /\ last.kept)

\* an evaluate with data loaded in which a callback encoded its result
HostWritesAboveDataWitness ==
  /\ last.op = "evaluate"
  /\ data_heap_ptr > base_heap_ptr
  /\ \E j \in 1..Len(last.calls) : last.calls[j].out = "ok" /\ last.calls[j].ret >= data_heap_ptr
  /\ last.wlo = data_heap_ptr

\* C6: after a successful set_data(d) the base checkpoint is what it was,
\* the data checkpoint is where encoding d from the base checkpoint ends,
\* at or above the base checkpoint, and data_addr is the root of d, which
\* lies between the two checkpoints.
SetDataCheckpoint ==
  (last.op = "set_data" /\ IsOk(last.res))
    => LET e == to_instance(Heap(mem, base_heap_ptr, base_heap_top), last.arg)
       IN  /\ base_heap_ptr = last.fields[2]
           /\ base_heap_top = last.fields[3]
           /\ e.h.err = NoErr
           /\ data_heap_ptr = e.h.heap_ptr
           /\ data_heap_top = e.h.heap_top
           /\ data_addr = e.a
           /\ data_heap_ptr >= base_heap_ptr
           /\ data_heap_top >= base_heap_top
           /\ data_addr >= base_heap_ptr
           /\ data_addr < data_heap_ptr
           /\ from_instance(mem, data_addr) = last.arg

\* set_data succeeded behind an evaluate that had moved the heap pointers
\* and behind an earlier set_data of a larger document
SetDataCheckpointWitness ==
  /\ last.op = "set_data"
  /\ IsOk(last.res)
  /\ last.before # last.start
  /\ last.fields[4] > data_heap_ptr
  /\ data_heap_ptr > base_heap_ptr

\* C7: a callback that does not come to a result (unknown id, no function
\* of that arity, an argument that does not decode, a function that fails,
\* a result that does not encode) returns address 0, and nothing of the
\* failure leaves the adapter: no panic unwinds out of the evaluation.
CallbackErrorsReturnZero ==
  last.op = "evaluate"
    => /\ \A j \in 1..Len(last.calls) :
            last.calls[j].out # "ok"
              => (last.calls[j].ret = 0 /\ last.calls[j].out # "panic")
       /\ ~IsPanic(last.res)

\* the names of the table that no arity map holds
UnknownNames(table) ==
  IF table.k # "map" THEN {}
  ELSE { table.xs[j].xs[1].s : j \in 1..Len(table.xs) } \ BUILTIN_NAMES

\* C8: after a successful initialization the id->name map sends the id of
\* every entry of the table to the name of the entry, and has as many
\* entries as the table.
RegistryCoversTable ==
  phase \in {"ready", "panicked"}
    => /\ slot.full
       /\ module.table.k = "map"
       /\ \A j \in 1..Len(module.table.xs) :
            LET id == try_into_i64(module.table.xs[j].xs[2])
            IN  /\ IsOk(id)
                /\ id.i \in DOMAIN slot.lookup
                /\ slot.lookup[id.i] = module.table.xs[j].xs[1].s
       /\ Cardinality(DOMAIN slot.lookup) = Len(module.table.xs)

FirstRejected(es) ==
  CHOOSE n \in 1..Len(es) :
    /\ es[n].xs[1].s \notin BUILTIN_NAMES \/ ~IsOk(try_into_i64(es[n].xs[2]))
    /\ \A m \in 1..(n - 1) :
         es[m].xs[1].s \in BUILTIN_NAMES /\ IsOk(try_into_i64(es[m].xs[2]))

AbortIsFatal == (last.op = "evaluate" /\ last.abort) => IsErr(last.res)

\* C11: a div or rem whose divisor is zero (the integer 0 or the double 0.0)
\* and whose dividend is a number returns Err(InvalidType): it does not
\* panic and it returns no number.
IsZero(v) == v = VInt(0) \/ v = VFloat(Fin(FALSE, 0))

Returned(name) == phase = "returned" /\ last.op = name

DivisionByZeroIsInvalidType ==
  ((Returned("div") \/ Returned("rem"))
     /\ last.arg[1] \in Numbers \ { VRef(<< 120 >>) } /\ IsZero(last.arg[2]))
    => (IsErr(last.res) /\ last.res.e = "InvalidType")

\* C12: plus, minus, mul, div and rem on two integers return an integer; on
\* two numbers of which at least one is not an integer they return a double;
\* two sets are taken by minus alone, which returns their difference; every
\* other pair of operands returns Err(InvalidType).
IsInteger(v) == v \in { VInt(0), VInt(1), VInt(2), VInt(0 - 4), VRef(<< 56 >>) }

IsDouble(v) ==
  v \in { VFloat(Fin(FALSE, 0)), VFloat(Fin(FALSE, 8)), VFloat(Fin(TRUE, 32)),
          VRef(<< 48, 46, 53 >>) }

Elements(xs) == { xs[j] : j \in 1..Len(xs) }

ArithmeticTypes ==
  (phase = "returned" /\ last.op \in Arithmetic) =>
    LET a == last.arg[1]
        b == last.arg[2]
    IN  IF IsInteger(a) /\ IsInteger(b) THEN last.res.k = "i64"
        ELSE IF (IsInteger(a) \/ IsDouble(a)) /\ (IsInteger(b) \/ IsDouble(b))
          THEN last.res.k = "f64"
        ELSE IF a.k = "set" /\ b.k = "set" /\ last.op = "minus"
          THEN /\ last.res.k = "set"
               /\ Elements(last.res.xs) = Elements(a.xs) \ Elements(b.xs)
               /\ Len(last.res.xs) = Cardinality(Elements(last.res.xs))
        ELSE IsErr(last.res) /\ last.res.e = "InvalidType"

\* C13: array.slice(a, start, end) on an array a and integers start and end
\* is the empty array when start >= end or both are negative, and else the
\* elements of a from clamp(start, 0, len) up to but excluding
\* clamp(end, 0, len); it is never an error or a panic.
Clamp(x, lo, hi) == IF x < lo THEN lo ELSE IF x > hi THEN hi ELSE x

IntegerOf(v) == IF v.k = "i64" THEN v.i ELSE 2

SliceClamps ==
  (Returned("array.slice") /\ last.arg[1].k = "seq") =>
    LET a == last.arg[1].xs
        start == IntegerOf(last.arg[2])
        end == IntegerOf(last.arg[3])
    IN  IF start >= end \/ (start < 0 /\ end < 0) THEN last.res = VArray(<< >>)
        ELSE last.res = VArray([j \in 1..(Clamp(end, 0, Len(a)) - Clamp(start, 0, Len(a))) |->
                                   a[Clamp(start, 0, Len(a)) + j]])

\* a slice that the length cuts at both ends of a non-empty result
SliceClampsWitness ==
  /\ Returned("array.slice")
  /\ last.arg[1].k = "seq" /\ Len(last.arg[1].xs) = 3
  /\ last.arg[2] = VInt(0 - 1) /\ last.arg[3] = VInt(5)
  /\ last.res = VArray(<< VInt(10), VInt(11), VInt(12) >>)

\* C14: Policy::from_wasm on a module that lacks one of the required
\* exports fails with MissingExport: no Policy is made of such a module.
MissingExportFails ==
  (last.op = "from_wasm" /\ ~(Required \subseteq module.exports)) =>
    (phase = "failed" /\ last.res.e = "MissingExport")

\* C15: once the Policy is dropped no allocation of its instance is kept
\* alive: no strong reference to the memory, the module instance, the
\* functions or the dispatcher slot is left.
DropReleasesInstance == phase = "dropped" => held = {}


RECURSIVE NullEncoded(_)
\* the value is encoded as a null node
NullEncoded(v) ==
  \/ v.k \in { "null", "unit", "none" }
  \/ v.k = "some" /\ NullEncoded(v.xs[1])

RECURSIVE Lossless(_)
\* no Some in the value wraps a value that is encoded as a null node
Lossless(v) ==
  /\ v.k = "some" => ~NullEncoded(v.xs[1])
  /\ \A j \in 1..Len(v.xs) : Lossless(v.xs[j])

RECURSIVE Collapse(_)
\* the value with None in place of every Some that wraps a value encoded
\* as a null node
Collapse(v) ==
  IF v.k = "some" /\ NullEncoded(v.xs[1]) THEN VNone
  ELSE [v EXCEPT !.xs = [j \in 1..Len(v.xs) |-> Collapse(v.xs[j])]]

\* a value of a type with an Option in it was encoded and decoded as that type
OptionDecoded ==
  /\ phase = "decoded"
  /\ val.ty \in OptionTypes

\* C16 as stated: a value of a type with an Option at any position, a Some
\* around a unit or a None included, that was encoded is decoded as that
\* type into an equal value.
OptionRoundTripAny == OptionDecoded => last.res = val.v

\* C16: a value of a type with an Option at any position in which no Some
\* wraps a value encoded as a null node is decoded as that type into an
\* equal value; a Some that wraps a value encoded as a null node is decoded
\* as None, at every position.
OptionRoundTrip ==
  OptionDecoded =>
    /\ Lossless(val.v) => last.res = val.v
    /\ last.res = Collapse(val.v)

\* a vector of Some(Some(56)) and None came back equal, and so did Some of
\* a vector; Some(()) came back as None
OptionRoundTripWitness ==
  /\ OptionDecoded
  /\ \/ val.v = VArray(<< VSome(VSome(VInt(56))), VNone >>) /\ last.res = val.v
     \/ val.v = VSome(VArray(<< VInt(56), VInt(0 - 1) >>)) /\ last.res = val.v
     \/ val.v = VSome(VUnit) /\ val.ty = Option(TUnit) /\ last.res = VNone

\* the tags a request of kind k accepts
Accepts(k) ==
  CASE k = "bool" -> { OPA_BOOLEAN }
    [] k \in { "i64", "f64", "ref" } -> { OPA_NUMBER }
    [] k = "str" -> { OPA_STRING }
    [] k = "unit" -> { OPA_NULL }
    [] k = "seq" -> { OPA_ARRAY, OPA_SET }
    [] k = "map" -> { OPA_OBJECT }
    [] k = "enum" -> { OPA_STRING, OPA_OBJECT }
    [] k = "set" -> { OPA_SET }

\* the errors that say a request of kind k met another tag
Expected(k) ==
  CASE k = "bool" -> { "ExpectedBoolean" }
    [] k \in { "i64", "f64", "ref" } -> { "ExpectedNumber" }
    [] k = "str" -> { "ExpectedString" }
    [] k = "unit" -> { "ExpectedNull" }
    [] k = "seq" -> { "ExpectedArray" }
    [] k = "map" -> { "ExpectedObject" }
    [] k = "enum" -> { "ExpectedEnum" }
    [] k = "set" -> { "ExpectedBoolean", "ExpectedNumber", "ExpectedString", "ExpectedNull",
                      "ExpectedArray", "ExpectedObject", "ExpectedEnum" }

\* the tag byte of the root node
Tag == mem[val.addr]

\* C20: a node requested as a bool, an integer, a float, a string, a unit,
\* a sequence, a map, an enum, the set marker or the number marker whose
\* tag the request does not accept yields the Expected error of the
\* request with the tag of the node as payload.
TypedDecodeErrors ==
  (phase = "decoded" /\ val.ty \in RequestTypes /\ Tag \notin Accepts(val.ty.k))
    => (IsErr(last.res) /\ last.res.e \in Expected(val.ty.k) /\ last.res.i = Tag)

\* the step op of the observed evaluate ran, at position j
RanAt(op, j) == j \in DOMAIN last.steps /\ last.steps[j].op = op

\* the step op ran with the result Ok before position j
OkBefore(op, j) == \E k \in 1..(j - 1) : RanAt(op, k) /\ last.steps[k].ok

\* C18: in an evaluate the export eval is invoked only behind a to_instance
\* of the input that returned Ok and behind eval_ctx_set_input and
\* eval_ctx_set_data; when to_instance of the input failed, eval_ctx_new
\* and eval are not invoked, no callback is made and the error is
\* returned; from_instance of the result runs only behind an eval that
\* returned Ok.
EvalOrder ==
  last.op = "evaluate" =>
    \A j \in DOMAIN last.steps :
      /\ RanAt("eval", j) =>
            /\ OkBefore("to_instance", j)
            /\ OkBefore("eval_ctx_set_input", j)
            /\ OkBefore("eval_ctx_set_data", j)
      /\ (RanAt("to_instance", j) /\ ~last.steps[j].ok) =>
            /\ \A k \in DOMAIN last.steps : ~RanAt("eval_ctx_new", k) /\ ~RanAt("eval", k)
            /\ last.calls = << >>
            /\ IsErr(last.res)
      /\ RanAt("from_instance", j) => OkBefore("eval", j)

\* an evaluate whose eval made a callback went through all its steps and
\* decoded a result
EvalOrderWitness ==
  /\ last.op = "evaluate"
  /\ Len(last.steps) = Len(EvaluateSteps)
  /\ last.calls # << >>
  /\ IsOk(last.res)

\* C17: a set_data that failed in the encoding of the new data leaves
\* data_addr and the checkpoints as they were and the memory below the data
\* checkpoint, where the nodes of the old data are, with its content, and
\* an evaluate(i) behind it returns what the evaluate(i) before it returned.
FailedSetDataKeepsData ==
  /\ (last.op = "set_data" /\ IsErr(last.res) /\ last.res.e # "Wasmi")
       => (Fields = last.fields /\ last.kept)
  /\ (last.op = "evaluate" /\ last.behind # << >>) => last.res = last.behind[1].res

RootHead == Field(Bytes(mem, val.addr, SizeofObject), 4)

\* C21: a decode step that has to follow a pointer field holding 0 (the
\* head of an empty object in the decoding of an enum) fails with an error
\* and reads no node at address 0: whatever byte address 0 holds, the
\* result is the same.
NullPointerNotFollowed ==
  (phase = "decoded" /\ val.ty.k = "enum" /\ Tag = OPA_OBJECT /\ RootHead = 0) =>
    /\ IsErr(last.res)
    /\ \A b \in 0..255 : from_instance_as(val.ty, [mem EXCEPT ![0] = b], val.addr) = last.res

\* the root node read as an array node
RootArray == Bytes(mem, val.addr, SizeofArray)

\* C22: encoding a sequence that declares the length len and emits count
\* elements fails with InvalidSeqLen(len, count) when count differs from
\* len, and otherwise returns an array node of len elements, the emitted
\* ones.
SeqLenChecked ==
  (last.op = "to_instance" /\ val.v \in Seqs) =>
    IF Len(val.v.xs) # val.v.i
      THEN /\ phase = "failed"
           /\ last.res = Mk("err", FALSE, 0, << val.v.i, Len(val.v.xs) >>, << >>, "InvalidSeqLen")
      ELSE /\ phase = "encoded"
           /\ Tag = OPA_ARRAY
           /\ Field(RootArray, 8) = val.v.i
           /\ from_instance(mem, val.addr) = val.v

\* a sequence that emitted one element more than the two it declared was
\* refused
SeqLenCheckedWitness ==
  /\ last.op = "to_instance"
  /\ val.v = VSeq(2, Emitted(3))
  /\ phase = "failed"
  /\ last.res.e = "InvalidSeqLen"

\* C30: the element slots the array encoder writes lie in the element
\* table: after a sequence emitted more elements than it declared, the
\* array header allocated behind the table still holds its tag, the address
\* of the table and the declared length.
ElementWritesStayInTable ==
  (last.op = "to_instance" /\ val.v \in Seqs /\ Len(val.v.xs) > val.v.i) =>
    Bytes(mem, HeapBase + val.v.i * SizeofArrayElem, SizeofArray) = ArrayBytes(HeapBase, val.v.i)

\* the i64 that an integer of the type k, given by its bytes, stands for:
\* a signed type is extended by its sign, an unsigned one by zeros
Widen(k, s) ==
  [j \in 1..8 |-> IF j <= Len(s) THEN s[j]
                   ELSE IF IsSigned(k) /\ s[Len(s)] >= 128 THEN 255 ELSE 0]

\* the i64 i is a value of the type k: the bytes of the type that
\* hold i stand for i again
InRange(k, i) ==
  /\ Widen(k, SubSeq(i, 1, SizeOf(k))) = i
  /\ (k = "u64" => i[8] < 128)

\* C23: an integer node that holds i, decoded as one of the types i8, u8,
\* i16, u16, i32, u32 and u64, gives i when i is a value of the type and
\* the error IntegerConversion when it is not; no other integer is
\* returned.
IntegerNarrowingChecked ==
  (phase = "decoded" /\ val.ty.k \in IntTypes /\ val.v \in Longs) =>
    IF InRange(val.ty.k, val.v.s)
      THEN last.res.k = "narrow" /\ Widen(val.ty.k, last.res.s) = val.v.s
      ELSE last.res = VErr("IntegerConversion", 0)

\* 2^32 was refused as a u32
IntegerNarrowingCheckedWitness ==
  /\ phase = "decoded"
  /\ val.ty.k = "u32"
  /\ val.v = VLong(Over(4))
  /\ IsErr(last.res)

RECURSIVE Links(_, _, _, _)
\* the addresses of the elements met from the element at a on, following
\* the next pointer at offset off until it is 0, at most fuel of them
Links(m, a, off, fuel) ==
  IF a = 0 \/ fuel = 0 THEN << >>
  ELSE << a >> \o Links(m, Field(Bytes(m, a, off + 4), off), off, fuel - 1)

\* offset of the next pointer in the elements of the root node
NextOff == IF val.v.k = "set" THEN 4 ELSE 8

\* the element at a holds the emitted entry x: the value of a set element,
\* the key and the value of an object element
Holds(a, x) ==
  IF val.v.k = "set" THEN Decode(mem, Field(Bytes(mem, a, SizeofSetElem), 0), MaxDepth) = x
  ELSE /\ ParseString(mem, Field(Bytes(mem, a, SizeofObjectElem), 0)) = x.xs[1]
       /\ Decode(mem, Field(Bytes(mem, a, SizeofObjectElem), 4), MaxDepth) = x.xs[2]

\* C24: behind the encoding of a map or a set that emitted n entries the
\* head pointer of the header is 0 iff n = 0, and the next pointers lead
\* from the head through n different elements, which hold the entries in
\* the order of their emission, the last of them with the next pointer 0.
ChainLinked ==
  (phase = "encoded" /\ val.v \in Chains) =>
    LET links == Links(mem, RootHead, NextOff, MaxChain + 1)
        n == Len(val.v.xs)
    IN  /\ (RootHead = 0) <=> (n = 0)
        /\ Len(links) = n
        /\ \A j \in 1..n : \A m \in 1..n : links[j] = links[m] => j = m
        /\ \A j \in 1..n : Holds(links[j], val.v.xs[j])
        /\ n > 0 => Field(Bytes(mem, links[n], NextOff + 4), NextOff) = 0

\* a map of MaxChain entries emitted out of key order was encoded
ChainLinkedWitness ==
  /\ phase = "encoded"
  /\ val.v = VMap(Entries(MaxChain))
  /\ RootHead # 0

\* the exact result of the operation op on integers of 64 bits, as an
\* integer of 128 bits, which holds every such result
Exact(op, args) ==
  CASE op = "plus" -> WrappingAdd(SignExtend(args[1].s), SignExtend(args[2].s))
    [] op = "minus" -> WrappingSub(SignExtend(args[1].s), SignExtend(args[2].s))
    [] op = "mul" -> WrappingMul(SignExtend(args[1].s), SignExtend(args[2].s))
    [] op = "abs" -> IF IsNegative(args[1].s) THEN WrappingSub(Pad(16), SignExtend(args[1].s))
                     ELSE SignExtend(args[1].s)

\* C25: plus, minus and mul on two 64-bit integers and abs on one do not
\* panic, and an integer they return is the exact result: where the exact
\* result does not fit into 64 bits no integer is returned.
IntegerArithmeticExact ==
  (/\ phase = "returned"
   /\ last.op \in { "plus", "minus", "mul", "abs" }
   /\ \A j \in DOMAIN last.arg : last.arg[j].k = "long") =>
    /\ ~IsPanic(last.res)
    /\ last.res.k = "long" => SignExtend(last.res.s) = Exact(last.op, last.arg)

\* C26: any(xs) on an array or a set is true iff an element of xs is the
\* boolean true, and all(xs) is true iff every element of xs is, whatever
\* the order of the elements and whatever else xs holds.
AnyAllOfBooleans ==
  /\ (phase = "returned" /\ last.op = "any") =>
       last.res = VBool(\E j \in DOMAIN last.arg[1].xs : last.arg[1].xs[j] = VBool(TRUE))
  /\ (phase = "returned" /\ last.op = "all") =>
       last.res = VBool(\A j \in DOMAIN last.arg[1].xs : last.arg[1].xs[j] = VBool(TRUE))

\* the least and the greatest of the integers of xs
Least(xs) == CHOOSE x \in Elements(xs) : \A y \in Elements(xs) : x.i <= y.i
Greatest(xs) == CHOOSE x \in Elements(xs) : \A y \in Elements(xs) : x.i >= y.i

\* C27: min(xs) and max(xs) on a non-empty array or set of integers are
\* the smallest and the largest element of xs: the integer number that the
\* element is.
MinMaxOfIntegers ==
  /\ (phase = "returned" /\ last.op = "min") => last.res = Least(last.arg[1].xs)
  /\ (phase = "returned" /\ last.op = "max") => last.res = Greatest(last.arg[1].xs)

\* C28: time.weekday(ns) on an integer ns returns the name of a weekday,
\* the value time.weekday([ns, "UTC"]) returns.
WeekdayForms ==
  (phase = "returned" /\ last.op = "time.weekday" /\ is_i64(last.arg[1])) =>
    /\ last.res.k = "str"
    /\ last.res = weekday(Array(<< last.arg[1], VStr(UTC) >>))

\* C29: in the Policy over JSON strings, set_data never requests a borrow
\* of the inner cell that conflicts with a borrow it still holds: whenever
\* a method running under set_data (load_json) is about to borrow, the flag
\* of the cell allows the request, and no set_data ends in a borrow panic.
SetDataBorrowsCompatible ==
  /\ (Running /\ val.stack[1].fn = "set_data" /\ ~ val.err
        /\ Cur.op \in { "borrow", "borrow_mut" })
       => CanBorrow(Cur.op, val.flag)
  /\ ~ (phase = "panicked" /\ val.panic.under = "set_data")

====
